---- MODULE Spec2Model ----
(***************************************************************************)
(* Model of the merge engine of ParadoxModPatcher:                         *)
(*   src/src/core/structural_merger.py   (StructuralMerger)                *)
(*   src/src/core/paradox_rules.py       (rule book, StructureValidator)   *)
(*   src/src/core/smart_patch_generator.py (SmartPatchGenerator)           *)
(*                                                                         *)
(* A Python str is a sequence of one-character strings.  Positions are     *)
(* 1-based; a "not found" of str.find / str.rfind (-1 in Python) is 0.     *)
(***************************************************************************)
EXTENDS Integers, Sequences, FiniteSets, TLC

----------------------------------------------------------------------------
(* Characters                                                              *)

LowerChars == {"a","b","c","d","e","f","g","h","i","j","k","l","m",
               "n","o","p","q","r","s","t","u","v","w","x","y","z"}
UpperChars == {"A","B","C","D","E","F","G","H","I","J","K","L","M",
               "N","O","P","Q","R","S","T","U","V","W","X","Y","Z"}
DigitChars == {"0","1","2","3","4","5","6","7","8","9"}

\* \s of the regular expressions and the default argument of str.strip()
IsSpace(c) == c \in {" ", "\t", "\n", "\r"}

\* [a-zA-Z0-9_] : first character of a block name
IsNameStart(c) == c \in LowerChars \cup UpperChars \cup DigitChars \cup {"_"}

\* [a-zA-Z0-9_\.:] : following characters of a block name
IsNameChar(c) == IsNameStart(c) \/ c \in {".", ":"}

----------------------------------------------------------------------------
(* Python str operations                                                   *)

\* a local variable: the value of In for the variable bound to value
Let(value, In(_)) == In(value)

Min(S) == CHOOSE x \in S : \A y \in S : x <= y
Max(S) == CHOOSE x \in S : \A y \in S : x >= y

\* s[i:] with a 1-based i
From(s, i) == SubSeq(s, i, Len(s))

\* s.count(c) for a one-character c
Count(s, c) == Cardinality({i \in 1..Len(s) : s[i] = c})

\* c in s for a one-character c
HasChar(s, c) == \E i \in 1..Len(s) : s[i] = c

\* position of the first occurrence of sub in s at or after position from (0: none)
FindFrom(s, sub, from) ==
    Let({i \in from..(Len(s) - Len(sub) + 1) : SubSeq(s, i, i + Len(sub) - 1) = sub},
        LAMBDA hits : IF hits = {} THEN 0 ELSE Min(hits))

\* sub stands in s at position p
OccursAt(s, sub, p) == p + Len(sub) - 1 <= Len(s) /\ SubSeq(s, p, p + Len(sub) - 1) = sub

\* s.find(sub)
Find(s, sub) == FindFrom(s, sub, 1)

\* s.rfind(c) for a one-character c
RFindChar(s, c) ==
    Let({i \in 1..Len(s) : s[i] = c}, LAMBDA hits : IF hits = {} THEN 0 ELSE Max(hits))

\* sub in s
Contains(s, sub) == Find(s, sub) > 0

\* s.startswith(p), s.endswith(p)
StartsWith(s, p) == Len(p) <= Len(s) /\ SubSeq(s, 1, Len(p)) = p
EndsWith(s, p) == Len(p) <= Len(s) /\ SubSeq(s, Len(s) - Len(p) + 1, Len(s)) = p

\* s.replace(old, new, 1): the first occurrence only; s itself when old does not occur
Replace1(s, old, new) ==
    LET p == Find(s, old)
    IN  IF p = 0 THEN s
        ELSE SubSeq(s, 1, p - 1) \o new \o SubSeq(s, p + Len(old), Len(s))

\* s.replace(old, new) for one-character old and new: every occurrence
ReplaceAllChar(s, old, new) == [i \in 1..Len(s) |-> IF s[i] = old THEN new ELSE s[i]]

\* the elements of a set of integers in increasing order
SortedSeq(S) ==
    [k \in 1..Cardinality(S) |-> CHOOSE x \in S : Cardinality({y \in S : y < x}) = k - 1]

\* s.lstrip(), s.rstrip(), s.strip()
LStrip(s) ==
    LET keep == {i \in 1..Len(s) : ~IsSpace(s[i])}
    IN  IF keep = {} THEN <<>> ELSE SubSeq(s, Min(keep), Len(s))
RStrip(s) ==
    LET keep == {i \in 1..Len(s) : ~IsSpace(s[i])}
    IN  IF keep = {} THEN <<>> ELSE SubSeq(s, 1, Max(keep))
Strip(s) == LStrip(RStrip(s))

\* s.split(c) for a one-character c: always at least one piece
Split(s, c) ==
    Let(SortedSeq({i \in 1..Len(s) : s[i] = c}), LAMBDA cuts :
        <<>> \o [k \in 1..(Len(cuts) + 1) |->
                    SubSeq(s, IF k = 1 THEN 1 ELSE cuts[k - 1] + 1,
                              IF k > Len(cuts) THEN Len(s) ELSE cuts[k] - 1)])

\* sep.join(parts)
Join(parts, sep) ==
    LET RECURSIVE go(_, _)
        go(i, acc) == IF i > Len(parts) THEN acc
                      ELSE go(i + 1, IF i = 1 THEN parts[1] ELSE acc \o sep \o parts[i])
    IN  go(1, <<>>)

\* s.split(): pieces between runs of whitespace, none of them empty
SplitWs(s) ==
    LET starts == SortedSeq({i \in 1..Len(s) : ~IsSpace(s[i]) /\ (i = 1 \/ IsSpace(s[i - 1]))})
        EndOf(i) == Min({j \in i..Len(s) : j = Len(s) \/ IsSpace(s[j + 1])})
    IN  [k \in 1..Len(starts) |-> SubSeq(s, starts[k], EndOf(starts[k]))]

\* x in xs for a list
InSeq(x, xs) == \E i \in 1..Len(xs) : xs[i] = x

----------------------------------------------------------------------------
(* Rule book: src/src/core/paradox_rules.py                                *)

\* str.lower() on the ASCII letters
UpperSeq == <<"A","B","C","D","E","F","G","H","I","J","K","L","M",
              "N","O","P","Q","R","S","T","U","V","W","X","Y","Z">>
LowerSeq == <<"a","b","c","d","e","f","g","h","i","j","k","l","m",
              "n","o","p","q","r","s","t","u","v","w","x","y","z">>
LowerChar(c) == IF c \in UpperChars THEN LowerSeq[CHOOSE i \in 1..26 : UpperSeq[i] = c] ELSE c
Lower(s) == [i \in 1..Len(s) |-> LowerChar(s[i])]

\* the whole of s[i..j] is in class: X+ when i <= j
AllIn(s, i, j, class) == \A k \in i..j : s[k] \in class

\* positions of the dots of a name
Dots(s) == {i \in 1..Len(s) : s[i] = "."}

SAFE_LIST_BLOCKS == {
    <<"o","n","_","a","c","t","i","o","n","s">>,  \* on_actions
    <<"e","v","e","n","t","s">>,  \* events
    <<"r","a","n","d","o","m","_","e","v","e","n","t","s">>,  \* random_events
    <<"r","a","n","d","o","m","_","o","n","_","a","c","t","i","o","n","s">>,  \* random_on_actions
    <<"f","i","r","s","t","_","v","a","l","i","d">> }  \* first_valid

NO_MERGE_BLOCKS == {
    <<"t","r","i","g","g","e","r">>,  \* trigger
    <<"l","i","m","i","t">>,  \* limit
    <<"e","f","f","e","c","t">>,  \* effect
    <<"i","m","m","e","d","i","a","t","e">>,  \* immediate
    <<"a","f","t","e","r">>,  \* after
    <<"o","n","_","t","r","i","g","g","e","r","_","f","a","i","l">>,  \* on_trigger_fail
    <<"m","o","d","i","f","i","e","r">>,  \* modifier
    <<"a","i","_","w","i","l","l","_","d","o">>,  \* ai_will_do
    <<"a","i","_","c","h","e","c","k","_","i","n","t","e","r","v","a","l">>,  \* ai_check_interval
    <<"a","i","_","c","h","a","n","c","e">>,  \* ai_chance
    <<"w","e","i","g","h","t">>,  \* weight
    <<"w","e","i","g","h","t","_","m","u","l","t","i","p","l","i","e","r">>,  \* weight_multiplier
    <<"c","o","m","p","a","r","e","_","m","o","d","i","f","i","e","r">>,  \* compare_modifier
    <<"o","p","i","n","i","o","n","_","m","o","d","i","f","i","e","r">>,  \* opinion_modifier
    <<"m","u","l","t">>,  \* mult
    <<"a","d","d">>,  \* add
    <<"f","a","c","t","o","r">>,  \* factor
    <<"o","p","t","i","o","n">>,  \* option
    <<"d","e","s","c">>,  \* desc
    <<"t","i","t","l","e">>,  \* title
    <<"t","h","e","m","e">>,  \* theme
    <<"o","v","e","r","r","i","d","e","_","b","a","c","k","g","r","o","u","n","d">>,  \* override_background
    <<"l","e","f","t","_","p","o","r","t","r","a","i","t">>,  \* left_portrait
    <<"r","i","g","h","t","_","p","o","r","t","r","a","i","t">>,  \* right_portrait
    <<"l","o","w","e","r","_","l","e","f","t","_","p","o","r","t","r","a","i","t">>,  \* lower_left_portrait
    <<"l","o","w","e","r","_","c","e","n","t","e","r","_","p","o","r","t","r","a","i","t">>,  \* lower_center_portrait
    <<"l","o","w","e","r","_","r","i","g","h","t","_","p","o","r","t","r","a","i","t">>,  \* lower_right_portrait
    <<"a","r","t","i","f","a","c","t">>,  \* artifact
    <<"o","v","e","r","r","i","d","e","_","i","c","o","n">>,  \* override_icon
    <<"c","o","o","l","d","o","w","n">>,  \* cooldown
    <<"i","s","_","s","h","o","w","n">>,  \* is_shown
    <<"i","s","_","v","a","l","i","d">>,  \* is_valid
    <<"i","s","_","v","a","l","i","d","_","s","h","o","w","i","n","g","_","f","a","i","l","u","r","e","s","_","o","n","l","y">>,  \* is_valid_showing_failures_only
    <<"c","o","s","t">>,  \* cost
    <<"m","i","n","i","m","u","m","_","c","o","s","t">>,  \* minimum_cost
    <<"c","o","n","f","i","r","m","_","t","e","x","t">>,  \* confirm_text
    <<"s","e","l","e","c","t","i","o","n","_","t","o","o","l","t","i","p">>,  \* selection_tooltip
    <<"c","a","n","_","s","e","n","d">>,  \* can_send
    <<"c","a","n","_","b","e","_","p","i","c","k","e","d">>,  \* can_be_picked
    <<"i","s","_","h","i","g","h","l","i","g","h","t","e","d">>,  \* is_highlighted
    <<"o","n","_","a","c","c","e","p","t">>,  \* on_accept
    <<"o","n","_","d","e","c","l","i","n","e">>,  \* on_decline
    <<"o","n","_","s","e","n","d">>,  \* on_send
    <<"o","n","_","a","u","t","o","_","a","c","c","e","p","t">>,  \* on_auto_accept
    <<"r","e","p","l","y","_","i","t","e","m">>,  \* reply_item
    <<"s","e","n","d","_","o","p","t","i","o","n">>,  \* send_option
    <<"g","r","e","e","t","i","n","g">>,  \* greeting
    <<"n","o","t","i","f","i","c","a","t","i","o","n","_","t","e","x","t">>,  \* notification_text
    <<"o","n","_","r","e","a","d","y">>,  \* on_ready
    <<"o","n","_","m","o","n","t","h","l","y">>,  \* on_monthly
    <<"o","n","_","i","n","v","a","l","i","d","a","t","e","d">>,  \* on_invalidated
    <<"o","n","_","s","t","a","r","t">>,  \* on_start
    <<"o","n","_","c","o","m","p","l","e","t","e">>,  \* on_complete
    <<"o","n","_","e","n","t","e","r","_","l","o","c","a","t","i","o","n">>,  \* on_enter_location
    <<"o","n","_","l","e","a","v","e","_","l","o","c","a","t","i","o","n">>,  \* on_leave_location
    <<"p","h","a","s","e","s">>,  \* phases
    <<"w","i","n","d","o","w">>,  \* window
    <<"w","i","d","g","e","t">>,  \* widget
    <<"c","o","n","t","a","i","n","e","r">>,  \* container
    <<"v","b","o","x">>,  \* vbox
    <<"h","b","o","x">>,  \* hbox
    <<"b","u","t","t","o","n">>,  \* button
    <<"t","e","x","t">>,  \* text
    <<"i","c","o","n">>,  \* icon
    <<"p","o","r","t","r","a","i","t">>,  \* portrait
    <<"s","c","r","o","l","l","a","r","e","a">>,  \* scrollarea
    <<"f","l","o","w","c","o","n","t","a","i","n","e","r">>,  \* flowcontainer
    <<"s","c","r","i","p","t","e","d","_","t","r","i","g","g","e","r">>,  \* scripted_trigger
    <<"s","c","r","i","p","t","e","d","_","e","f","f","e","c","t">>,  \* scripted_effect
    <<"t","r","a","i","t">>,  \* trait
    <<"c","u","l","t","u","r","e">>,  \* culture
    <<"c","u","l","t","u","r","e","_","g","r","o","u","p">>,  \* culture_group
    <<"h","e","r","i","t","a","g","e">>,  \* heritage
    <<"t","r","a","d","i","t","i","o","n">>,  \* tradition
    <<"r","e","l","i","g","i","o","n">>,  \* religion
    <<"f","a","i","t","h">>,  \* faith
    <<"d","o","c","t","r","i","n","e">>,  \* doctrine
    <<"d","y","n","a","s","t","y">>,  \* dynasty
    <<"h","o","u","s","e">>,  \* house
    <<"c","h","a","r","a","c","t","e","r">>,  \* character
    <<"p","r","o","v","i","n","c","e">>,  \* province
    <<"h","o","l","d","i","n","g">>,  \* holding
    <<"b","u","i","l","d","i","n","g">>,  \* building
    <<"m","e","n","_","a","t","_","a","r","m","s">>,  \* men_at_arms
    <<"i","n","n","o","v","a","t","i","o","n">>,  \* innovation
    <<"l","a","w">>,  \* law
    <<"l","i","f","e","s","t","y","l","e">>,  \* lifestyle
    <<"p","e","r","k">>,  \* perk
    <<"f","o","c","u","s">> }  \* focus

CONTAINER_BLOCKS == {
    <<"o","n","_","g","a","m","e","_","s","t","a","r","t">>,  \* on_game_start
    <<"o","n","_","g","a","m","e","_","s","t","a","r","t","_","a","f","t","e","r","_","l","o","b","b","y">>,  \* on_game_start_after_lobby
    <<"o","n","_","b","i","r","t","h">>,  \* on_birth
    <<"o","n","_","b","i","r","t","h","_","c","h","i","l","d">>,  \* on_birth_child
    <<"o","n","_","b","i","r","t","h","_","m","o","t","h","e","r">>,  \* on_birth_mother
    <<"o","n","_","b","i","r","t","h","_","f","a","t","h","e","r">>,  \* on_birth_father
    <<"o","n","_","b","i","r","t","h","_","r","e","a","l","_","f","a","t","h","e","r">>,  \* on_birth_real_father
    <<"o","n","_","d","e","a","t","h">>,  \* on_death
    <<"o","n","_","n","a","t","u","r","a","l","_","d","e","a","t","h","_","s","e","c","o","n","d","_","c","h","a","n","c","e">>,  \* on_natural_death_second_chance
    <<"o","n","_","j","o","i","n","_","c","o","u","r","t">>,  \* on_join_court
    <<"o","n","_","l","e","a","v","e","_","c","o","u","r","t">>,  \* on_leave_court
    <<"o","n","_","i","m","p","r","i","s","o","n">>,  \* on_imprison
    <<"o","n","_","r","e","l","e","a","s","e","_","f","r","o","m","_","p","r","i","s","o","n">>,  \* on_release_from_prison
    <<"o","n","_","m","a","r","r","i","a","g","e">>,  \* on_marriage
    <<"o","n","_","d","i","v","o","r","c","e">>,  \* on_divorce
    <<"o","n","_","c","o","n","c","u","b","i","n","a","g","e">>,  \* on_concubinage
    <<"o","n","_","c","h","a","r","a","c","t","e","r","_","f","a","i","t","h","_","c","h","a","n","g","e">>,  \* on_character_faith_change
    <<"o","n","_","f","a","i","t","h","_","c","r","e","a","t","e","d">>,  \* on_faith_created
    <<"o","n","_","f","a","i","t","h","_","c","o","n","v","e","r","s","i","o","n">>,  \* on_faith_conversion
    <<"o","n","_","c","h","a","r","a","c","t","e","r","_","c","u","l","t","u","r","e","_","c","h","a","n","g","e">>,  \* on_character_culture_change
    <<"o","n","_","w","a","r","_","s","t","a","r","t","e","d">>,  \* on_war_started
    <<"o","n","_","w","a","r","_","e","n","d","e","d">>,  \* on_war_ended
    <<"o","n","_","w","a","r","_","w","o","n">>,  \* on_war_won
    <<"o","n","_","w","a","r","_","l","o","s","t">>,  \* on_war_lost
    <<"o","n","_","w","a","r","_","w","h","i","t","e","_","p","e","a","c","e">>,  \* on_war_white_peace
    <<"o","n","_","t","i","t","l","e","_","g","a","i","n">>,  \* on_title_gain
    <<"o","n","_","t","i","t","l","e","_","l","o","s","t">>,  \* on_title_lost
    <<"o","n","_","t","i","t","l","e","_","d","e","s","t","r","o","y","e","d">>,  \* on_title_destroyed
    <<"o","n","_","r","e","a","l","m","_","c","a","p","i","t","a","l","_","c","h","a","n","g","e">>,  \* on_realm_capital_change
    <<"o","n","_","c","o","u","n","t","y","_","f","a","i","t","h","_","c","h","a","n","g","e">>,  \* on_county_faith_change
    <<"o","n","_","c","o","u","n","t","y","_","c","u","l","t","u","r","e","_","c","h","a","n","g","e">>,  \* on_county_culture_change
    <<"o","n","_","y","e","a","r","l","y","_","p","u","l","s","e">>,  \* on_yearly_pulse
    <<"o","n","_","m","o","n","t","h","l","y","_","p","u","l","s","e">>,  \* on_monthly_pulse
    <<"o","n","_","w","e","e","k","l","y","_","p","u","l","s","e">>,  \* on_weekly_pulse
    <<"o","n","_","q","u","a","r","t","e","r","l","y","_","p","u","l","s","e">>,  \* on_quarterly_pulse
    <<"f","i","v","e","_","y","e","a","r","_","p","l","a","y","a","b","l","e","_","p","u","l","s","e">>,  \* five_year_playable_pulse
    <<"t","h","r","e","e","_","y","e","a","r","_","p","l","a","y","a","b","l","e","_","p","u","l","s","e">>,  \* three_year_playable_pulse
    <<"y","e","a","r","l","y","_","p","l","a","y","a","b","l","e","_","p","u","l","s","e">>,  \* yearly_playable_pulse
    <<"r","a","n","d","o","m","_","y","e","a","r","l","y","_","p","l","a","y","a","b","l","e","_","p","u","l","s","e">>,  \* random_yearly_playable_pulse
    <<"r","a","n","d","o","m","_","y","e","a","r","l","y","_","e","v","e","r","y","o","n","e","_","p","u","l","s","e">>,  \* random_yearly_everyone_pulse
    <<"o","n","_","p","r","e","s","t","i","g","e","_","g","a","i","n","e","d">>,  \* on_prestige_gained
    <<"o","n","_","p","i","e","t","y","_","g","a","i","n","e","d">>,  \* on_piety_gained
    <<"o","n","_","g","o","l","d","_","g","a","i","n","e","d">>,  \* on_gold_gained
    <<"o","n","_","a","r","m","y","_","e","n","t","e","r","_","p","r","o","v","i","n","c","e">>,  \* on_army_enter_province
    <<"o","n","_","s","i","e","g","e","_","c","o","m","p","l","e","t","i","o","n">>,  \* on_siege_completion
    <<"o","n","_","s","i","e","g","e","_","g","r","e","a","t","_","s","u","c","c","e","s","s">>,  \* on_siege_great_success
    <<"o","n","_","s","i","e","g","e","_","l","o","o","t","i","n","g">>,  \* on_siege_looting
    <<"o","n","_","a","r","t","i","f","a","c","t","_","c","r","e","a","t","e","d">>,  \* on_artifact_created
    <<"o","n","_","a","r","t","i","f","a","c","t","_","d","e","s","t","r","o","y","e","d">>,  \* on_artifact_destroyed
    <<"o","n","_","a","r","t","i","f","a","c","t","_","c","h","a","n","g","e","d","_","o","w","n","e","r">>,  \* on_artifact_changed_owner
    <<"o","n","_","h","o","l","y","_","o","r","d","e","r","_","f","o","u","n","d","e","d">>,  \* on_holy_order_founded
    <<"o","n","_","h","o","l","y","_","o","r","d","e","r","_","d","e","s","t","r","o","y","e","d">>,  \* on_holy_order_destroyed
    <<"o","n","_","d","y","n","a","s","t","y","_","c","r","e","a","t","e","d">>,  \* on_dynasty_created
    <<"o","n","_","h","o","u","s","e","_","c","r","e","a","t","e","d">> }  \* on_house_created

ATOMIC_FILE_CONTEXTS == {
    <<"d","e","c","i","s","i","o","n","s">>,  \* decisions
    <<"e","v","e","n","t","s">>,  \* events
    <<"c","h","a","r","a","c","t","e","r","_","i","n","t","e","r","a","c","t","i","o","n","s">>,  \* character_interactions
    <<"s","c","h","e","m","e","s">>,  \* schemes
    <<"a","c","t","i","v","i","t","i","e","s">> }  \* activities

RECURSIVE_FILE_CONTEXTS == {
    <<"o","n","_","a","c","t","i","o","n">>,  \* on_action
    <<"s","c","r","i","p","t","e","d","_","e","f","f","e","c","t","s">> }  \* scripted_effects

gui_containers == {
    <<"c","h","a","r","a","c","t","e","r","_","v","i","e","w","_","b","g">>,  \* character_view_bg
    <<"c","h","a","r","a","c","t","e","r","_","l","o","c","a","t","i","o","n","_","e","x","t","e","r","i","o","r">>,  \* character_location_exterior
    <<"c","h","a","r","a","c","t","e","r","_","r","e","l","i","g","i","o","n","_","i","n","t","e","r","i","o","r">>,  \* character_religion_interior
    <<"r","e","l","i","g","i","o","n","_","i","n","t","e","r","i","o","r">>,  \* religion_interior
    <<"r","e","l","i","g","i","o","n","_","h","o","l","d","i","n","g">>,  \* religion_holding
    <<"t","i","t","l","e","_","h","o","l","d","i","n","g">>,  \* title_holding
    <<"a","r","t","i","f","a","c","t","_","r","e","g","i","o","n","a","l","_","p","a","t","t","e","r","n">>,  \* artifact_regional_pattern
    <<"c","h","a","r","a","c","t","e","r","_","p","r","i","v","a","t","e">>,  \* character_private
    <<"c","u","l","t","u","r","e","_","l","e","v","y","_","b","i","g","_","i","l","l","u","s","t","r","a","t","i","o","n">>,  \* culture_levy_big_illustration
    <<"c","u","l","t","u","r","e","_","k","n","i","g","h","t","_","b","i","g","_","i","l","l","u","s","t","r","a","t","i","o","n">>,  \* culture_knight_big_illustration
    <<"c","u","l","t","u","r","e","_","l","e","v","y","_","s","m","a","l","l","_","i","l","l","u","s","t","r","a","t","i","o","n">>,  \* culture_levy_small_illustration
    <<"c","u","l","t","u","r","e","_","k","n","i","g","h","t","_","s","m","a","l","l","_","i","l","l","u","s","t","r","a","t","i","o","n">> }  \* culture_knight_small_illustration

\* re.match(r'^[a-z_]+\.\d+$', block_name)
is_event_block(block_name) ==
    \E d \in Dots(block_name) :
        /\ d > 1 /\ d < Len(block_name)
        /\ AllIn(block_name, 1, d - 1, LowerChars \cup {"_"})
        /\ AllIn(block_name, d + 1, Len(block_name), DigitChars)

\* re.match(r'^\d+\.\d+\.\d+$', block_name)
is_date_block(block_name) ==
    \E d1 \in Dots(block_name), d2 \in Dots(block_name) :
        /\ 1 < d1 /\ d1 + 1 < d2 /\ d2 < Len(block_name)
        /\ AllIn(block_name, 1, d1 - 1, DigitChars)
        /\ AllIn(block_name, d1 + 1, d2 - 1, DigitChars)
        /\ AllIn(block_name, d2 + 1, Len(block_name), DigitChars)

\* re.match(r'^\d+$', block_name): the 'province_id' entry of BLOCK_PATTERNS
is_province_id(block_name) ==
    Len(block_name) > 0 /\ AllIn(block_name, 1, Len(block_name), DigitChars)

\* re.match(r'^<prefix>[a-z_]+$', block_name)
MatchesPrefixLower(block_name, prefix) ==
    /\ StartsWith(block_name, prefix)
    /\ Len(block_name) > Len(prefix)
    /\ AllIn(block_name, Len(prefix) + 1, Len(block_name), LowerChars \cup {"_"})

ITERATOR_PATTERNS == {
    <<"e","v","e","r","y","_">>,
    <<"r","a","n","d","o","m","_">>,
    <<"o","r","d","e","r","e","d","_">>,
    <<"a","n","y","_">> }

is_iterator_block(block_name) ==
    IF block_name \in SAFE_LIST_BLOCKS THEN FALSE
    ELSE \E prefix \in ITERATOR_PATTERNS : MatchesPrefixLower(block_name, prefix)

is_on_action_container(block_name) ==
    \/ StartsWith(block_name, <<"o","n","_">>) /\ block_name # <<"o","n","_","a","c","t","i","o","n","s">>
    \/ Contains(block_name, <<"_","p","u","l","s","e">>)
    \/ Contains(block_name, <<"_","p","l","a","y","a","b","l","e","_","p","u","l","s","e">>)

is_scripted_effect_container(block_name) ==
    \/ EndsWith(block_name, <<"_","e","f","f","e","c","t">>)
    \/ EndsWith(block_name, <<"_","e","f","f","e","c","t","s">>)
    \/ StartsWith(block_name, <<"f","i","r","e","_">>)
    \/ StartsWith(block_name, <<"s","e","t","u","p","_">>)
    \/ StartsWith(block_name, <<"i","n","i","t","i","a","l","i","z","e","_">>)
    \/ StartsWith(block_name, <<"i","n","i","t","_">>)
    \/ Contains(block_name, <<"_","i","n","t","r","o","_">>)
    \/ Contains(block_name, <<"_","g","a","m","e","s","t","a","r","t","_">>)
    \/ Contains(block_name, <<"_","s","e","t","u","p","_">>)
    \/ Contains(block_name, <<"_","s","p","a","w","n","_">>)

is_gui_background_container(block_name) ==
    \/ block_name \in gui_containers
    \/ EndsWith(block_name, <<"_","b","g">>)
    \/ EndsWith(block_name, <<"_","i","l","l","u","s","t","r","a","t","i","o","n">>)
    \/ EndsWith(block_name, <<"_","i","n","t","e","r","i","o","r">>)
    \/ EndsWith(block_name, <<"_","e","x","t","e","r","i","o","r">>)
    \/ EndsWith(block_name, <<"_","p","a","t","t","e","r","n">>)

\* an order of the rules in which the container names are looked at before the
\* blocks that are never merged.  The property of the order must reject it.
get_merge_strategy_containers_first(block_name, parent_name) ==
    IF is_event_block(block_name) \/ is_date_block(block_name) \/ is_province_id(block_name)
        THEN "REPLACE_WHOLE"
    ELSE IF is_iterator_block(block_name) THEN "REPLACE_WHOLE"
    ELSE IF block_name \in SAFE_LIST_BLOCKS THEN "ACCUMULATE_LIST"
    ELSE IF block_name \in CONTAINER_BLOCKS THEN "RECURSIVE"
    ELSE IF is_on_action_container(block_name) THEN "RECURSIVE"
    ELSE IF is_scripted_effect_container(block_name) THEN "RECURSIVE"
    ELSE IF is_gui_background_container(block_name) THEN "RECURSIVE"
    ELSE "REPLACE_WHOLE"

\* MergeStrategy; parent_name is not read by the source
get_merge_strategy(block_name, parent_name) ==
    IF is_event_block(block_name) \/ is_date_block(block_name) \/ is_province_id(block_name)
        THEN "REPLACE_WHOLE"
    ELSE IF is_iterator_block(block_name) THEN "REPLACE_WHOLE"
    ELSE IF block_name \in SAFE_LIST_BLOCKS THEN "ACCUMULATE_LIST"
    ELSE IF block_name \in NO_MERGE_BLOCKS THEN "REPLACE_WHOLE"
    ELSE IF block_name \in CONTAINER_BLOCKS THEN "RECURSIVE"
    ELSE IF is_on_action_container(block_name) THEN "RECURSIVE"
    ELSE IF is_scripted_effect_container(block_name) THEN "RECURSIVE"
    ELSE IF is_gui_background_container(block_name) THEN "RECURSIVE"
    ELSE "REPLACE_WHOLE"

\* a rule that lets every child into every parent.  The property of the safe
\* additions must reject it.
is_always_safe_to_add_child(child_name, parent_name) == TRUE

is_safe_to_add_child(child_name, parent_name) ==
    IF is_scripted_effect_container(parent_name) THEN TRUE
    ELSE IF is_on_action_container(parent_name) THEN TRUE
    ELSE IF is_gui_background_container(parent_name) THEN TRUE
    ELSE get_merge_strategy(child_name, parent_name) \in {"ACCUMULATE_LIST", "RECURSIVE"}

\* one of the three tests of get_file_context for one context word
InContext(path_lower, context) ==
    \/ Contains(path_lower, <<"/">> \o context \o <<"/">>)
    \/ StartsWith(path_lower, context \o <<"/">>)
    \/ Contains(path_lower, <<"/">> \o context)

get_file_context(file_path) ==
    IF file_path = <<>> THEN "unknown"
    ELSE LET path_lower == ReplaceAllChar(Lower(file_path), "\\", "/")
         IN  IF \E context \in RECURSIVE_FILE_CONTEXTS : InContext(path_lower, context)
                 THEN "recursive"
             ELSE IF \E context \in ATOMIC_FILE_CONTEXTS : InContext(path_lower, context)
                 THEN "atomic"
             ELSE "unknown"

\* TopLevelStrategy
get_top_level_strategy(block_name, file_path) ==
    IF is_event_block(block_name) THEN "ATOMIC_ACCUMULATE"
    ELSE IF is_date_block(block_name) THEN "ATOMIC_ACCUMULATE"
    ELSE IF get_file_context(file_path) = "atomic" THEN "ATOMIC_ACCUMULATE"
    ELSE IF get_file_context(file_path) = "recursive" THEN "MERGEABLE_CONTAINER"
    ELSE IF is_on_action_container(block_name) THEN "MERGEABLE_CONTAINER"
    ELSE IF is_scripted_effect_container(block_name) THEN "MERGEABLE_CONTAINER"
    ELSE IF is_gui_background_container(block_name) THEN "MERGEABLE_CONTAINER"
    ELSE "ATOMIC_ACCUMULATE"

----------------------------------------------------------------------------
(* StructuralMerger, parsing: src/src/core/structural_merger.py            *)

\* a comment search that does not look at quotes: the position of the first # of
\* the line (0: none).  The brace-balance property must reject it.
find_first_hash(line) ==
    Let({i \in 1..Len(line) : line[i] = "#"}, LAMBDA hits :
        IF hits = {} THEN 0 ELSE Min(hits))

\* _find_comment_start: position of the first # outside "..." (0: none).  A quote
\* preceded by a backslash does not toggle.
find_comment_start(line) ==
    LET Toggles(i) == line[i] = "\"" /\ (i = 1 \/ line[i - 1] # "\\")
        in_quotes(i) == Cardinality({q \in 1..(i - 1) : Toggles(q)}) % 2 = 1
    IN  Let({i \in 1..Len(line) : line[i] = "#" /\ ~in_quotes(i)}, LAMBDA hits :
        IF hits = {} THEN 0 ELSE Min(hits))

\* the line without its comment: line[:hash_pos] when hash_pos >= 0
CutComment(line) ==
    Let(find_comment_start(line), LAMBDA hash_pos :
        IF hash_pos > 0 THEN SubSeq(line, 1, hash_pos - 1) ELSE line)

\* line_for_count.count('{') - line_for_count.count('}')
BraceDelta(line) ==
    Let(CutComment(line), LAMBDA line_for_count :
        Count(line_for_count, "{") - Count(line_for_count, "}"))

\* _count_braces: <<open_count, close_count>> of a text, comments left out
count_braces(content) ==
    Let(Split(content, "\n"), LAMBDA lines :
    Let([i \in 1..Len(lines) |-> CutComment(lines[i])], LAMBDA cut :
        LET RECURSIVE go(_, _, _)
            go(i, open_count, close_count) ==
                IF i > Len(cut) THEN <<open_count, close_count>>
                ELSE go(i + 1, open_count + Count(cut[i], "{"),
                               close_count + Count(cut[i], "}"))
        IN  go(1, 0, 0)))

\* _validate_braces
validate_braces(content) ==
    Let(count_braces(content), LAMBDA counts : counts[1] = counts[2])

\* length of the longest prefix of s of the form [a-zA-Z0-9_][a-zA-Z0-9_\.:]* (0: none)
NameLen(s) ==
    IF s = <<>> \/ ~IsNameStart(s[1]) THEN 0
    ELSE Let({k \in 2..Len(s) : ~IsNameChar(s[k])}, LAMBDA stop :
             IF stop = {} THEN Len(s) ELSE Min(stop) - 1)

\* first position at or after i that holds no whitespace (Len(s) + 1: none)
SkipSpace(s, i) ==
    Let({k \in i..Len(s) : ~IsSpace(s[k])}, LAMBDA stop :
        IF stop = {} THEN Len(s) + 1 ELSE Min(stop))

\* position of the { when s[from..] starts with \s*=\s*\{ (0: no match)
MatchAssignBrace(s, from) ==
    Let(SkipSpace(s, from), LAMBDA eq :
        IF eq > Len(s) \/ s[eq] # "=" THEN 0
        ELSE Let(SkipSpace(s, eq + 1), LAMBDA br :
                 IF br > Len(s) \/ s[br] # "{" THEN 0 ELSE br))

\* re.match(r'^([a-zA-Z0-9_][a-zA-Z0-9_\.:]*)\s*=\s*\{(.*)$', stripped):
\* group 1 as name and group 2 as rest
MatchBlockOpen(stripped) ==
    Let(NameLen(stripped), LAMBDA n :
    Let(IF n = 0 THEN 0 ELSE MatchAssignBrace(stripped, n + 1), LAMBDA br :
        IF br = 0 THEN [ok |-> FALSE, name |-> <<>>, rest |-> <<>>]
        ELSE [ok |-> TRUE, name |-> SubSeq(stripped, 1, n), rest |-> From(stripped, br + 1)]))

\* re.match(r'^[a-zA-Z0-9_][a-zA-Z0-9_\.:]*$', item)
IsIdentifier(item) == item # <<>> /\ NameLen(item) = Len(item)

\* text[text.find('{') + 1 : text.rfind('}')] if the } stands after that start, else ""
InnerText(text) ==
    Let(Find(text, <<"{">>), LAMBDA inner_start :
    Let(RFindChar(text, "}"), LAMBDA close :
        IF close - 1 > inner_start THEN SubSeq(text, inner_start + 1, close - 1) ELSE <<>>))

\* _parse_list_items.  The character loop cuts the comment-free text at every
\* blank that is read at depth 0 (depth: the { minus the } read so far); a piece
\* between two cuts is `current`, kept when it has no = or has a {, and the kept
\* pieces that are identifiers are the items.
parse_list_items(content) ==
    Let(Split(content, "\n"), LAMBDA lines :
    Let(Join([i \in 1..Len(lines) |-> CutComment(lines[i])], <<" ">>), LAMBDA clean_content :
    Let({i \in 1..Len(clean_content) :
            /\ clean_content[i] \in {" ", "\t", "\n"}
            /\ Count(SubSeq(clean_content, 1, i - 1), "{")
                  = Count(SubSeq(clean_content, 1, i - 1), "}")}, LAMBDA cuts :
    Let(SortedSeq({i \in (1..Len(clean_content)) \ cuts : i = 1 \/ (i - 1) \in cuts}),
        LAMBDA starts :
        LET n == Len(clean_content)
            EndOf(i) == Min({j \in i..n : j = n \/ (j + 1) \in cuts})
            Keep(current) == ~HasChar(current, "=") \/ HasChar(current, "{")
            Item(k) == Strip(SubSeq(clean_content, starts[k], EndOf(starts[k])))
        IN  SelectSeq(SelectSeq([k \in 1..Len(starts) |-> Item(k)], Keep),
                      IsIdentifier)))))

\* ParsedBlock.  children is the dict name -> list of blocks, as a sequence of
\* [name, blocks] in the order of first insertion.  start_line, end_line and
\* properties are written by the parser and read by no merge step; they are left out.
ParsedBlock(name, full_text, inner_text, indent, children, list_items) ==
    [name |-> name, full_text |-> full_text, inner_text |-> inner_text,
     indent |-> indent, children |-> children, list_items |-> list_items]

\* ParsedBlock.add_child
add_child(children, child) ==
    IF \E k \in 1..Len(children) : children[k].name = child.name
        THEN [k \in 1..Len(children) |->
                 IF children[k].name = child.name
                     THEN [children[k] EXCEPT !.blocks = Append(@, child)]
                     ELSE children[k]]
        ELSE Append(children, [name |-> child.name, blocks |-> <<child>>])

\* ParsedBlock.get_all_children
get_all_children(block, name) ==
    IF \E k \in 1..Len(block.children) : block.children[k].name = name
        THEN block.children[CHOOSE k \in 1..Len(block.children) : block.children[k].name = name].blocks
        ELSE <<>>

\* index after the last line of a multi-line child opened on line start: the loop
\* `while i < len(lines) and brace_depth > 0` entered with brace_depth = 1
ChildEnd(lines, start) ==
    LET RECURSIVE go(_, _)
        go(i, brace_depth) ==
            IF i <= Len(lines) /\ brace_depth > 0
                THEN go(i + 1, brace_depth + BraceDelta(lines[i]))
                ELSE i
    IN  go(start + 1, 1)

\* _parse_block_contents, a child written on one line: the block of the line
\* `stripped`, which opens a block of this name and ends with }
OneLineChild(name, stripped, indent, rest) ==
    Let(Strip(SubSeq(rest, 1, Len(rest) - 1)), LAMBDA inner :
        ParsedBlock(name, stripped, inner, indent, <<>>,
            IF inner # <<>> THEN parse_list_items(inner) ELSE <<>>))

\* _parse_block_contents: the children of a block whose inner text is content
RECURSIVE parse_block_contents(_)
parse_block_contents(content) ==
    Let(Split(content, "\n"), LAMBDA lines :
        LET \* a child written over several lines, from line i to line end - 1
            ManyLinesChild(name, indent, child_text) ==
                Let(InnerText(child_text), LAMBDA inner_text :
                    ParsedBlock(name, child_text, inner_text, indent,
                        parse_block_contents(inner_text), parse_list_items(inner_text)))
            \* one iteration of `while i < len(lines)`: i and the children after it
            Iteration(i, children) ==
                Let(lines[i], LAMBDA line :
                Let(Strip(line), LAMBDA stripped :
                Let(MatchBlockOpen(stripped), LAMBDA m :
                Let(SubSeq(line, 1, Len(line) - Len(stripped)), LAMBDA indent :
                Let(RStrip(m.rest), LAMBDA rest :
                Let(ChildEnd(lines, i), LAMBDA end :
                    IF stripped = <<>> \/ stripped[1] = "#" \/ ~m.ok
                        THEN [i |-> i + 1, children |-> children]
                    ELSE IF EndsWith(rest, <<"}">>)
                        THEN [i |-> i + 1,
                              children |-> add_child(children,
                                  OneLineChild(m.name, stripped, indent, rest))]
                    ELSE [i |-> end,
                          children |-> add_child(children,
                              ManyLinesChild(m.name, indent,
                                  Join(SubSeq(lines, i, end - 1), <<"\n">>)))]))))))
            RECURSIVE go(_)
            go(at) == IF at.i > Len(lines) THEN at.children
                      ELSE go(Iteration(at.i, at.children))
        IN  go([i |-> 1, children |-> <<>>]))

\* index after the last line of the top-level block opened on line start: the loop
\* that stops as soon as brace_depth <= 0, entered with brace_depth = 0
BlockEnd(lines, start) ==
    LET RECURSIVE go(_, _)
        go(i, brace_depth) ==
            IF i > Len(lines) THEN i
            ELSE Let(brace_depth + BraceDelta(lines[i]), LAMBDA depth :
                     IF depth <= 0 THEN i + 1 ELSE go(i + 1, depth))
    IN  go(start, 0)

\* blocks[block_name] = block of a dict kept as a sequence in insertion order
DictPut(blocks, block) ==
    IF \E k \in 1..Len(blocks) : blocks[k].name = block.name
        THEN [k \in 1..Len(blocks) |-> IF blocks[k].name = block.name THEN block ELSE blocks[k]]
        ELSE Append(blocks, block)

\* blocks.get(block_name): a one-element sequence, or <<>> for None
DictGet(blocks, name) == SelectSeq(blocks, LAMBDA b : b.name = name)

\* _parse_top_level_blocks, one block: the block of this name whose text is full_text
TopLevelBlock(name, line, full_text) ==
    Let(InnerText(full_text), LAMBDA inner_text :
        ParsedBlock(name, full_text, inner_text,
            SubSeq(line, 1, Len(line) - Len(LStrip(line))),
            parse_block_contents(inner_text), <<>>))

\* _parse_top_level_blocks: the dict name -> block as a sequence in insertion order.
\* The '__header__' entry is left out: merge_contents skips every name starting with '__'.
parse_top_level_blocks(content) ==
    Let(Split(content, "\n"), LAMBDA lines :
        LET \* one iteration of `while i < len(lines)`: i and the blocks after it
            Iteration(i, blocks) ==
                Let(Strip(lines[i]), LAMBDA stripped :
                Let(MatchBlockOpen(stripped), LAMBDA m :
                Let(BlockEnd(lines, i), LAMBDA end :
                    IF stripped = <<>> \/ stripped[1] = "#" \/ ~m.ok
                        THEN [i |-> i + 1, blocks |-> blocks]
                    ELSE [i |-> end,
                          blocks |-> DictPut(blocks,
                              TopLevelBlock(m.name, lines[i],
                                  Join(SubSeq(lines, i, end - 1), <<"\n">>)))])))
            RECURSIVE go(_)
            go(at) == IF at.i > Len(lines) THEN at.blocks
                      ELSE go(Iteration(at.i, at.blocks))
        IN  go([i |-> 1, blocks |-> <<>>]))

\* _normalize_content of the merger: comments cut outside quotes, lines stripped,
\* the non-empty ones joined by one space
normalize_content(content) ==
    Let(Split(content, "\n"), LAMBDA lines :
        Join(SelectSeq([i \in 1..Len(lines) |-> Strip(CutComment(lines[i]))],
                       LAMBDA l : l # <<>>), <<" ">>))

\* a comparison for which every block of a mod differs from the base's.  The
\* property of the merge with unchanged mods must reject it.
blocks_always_differ(base, mod) == TRUE

\* _blocks_differ
blocks_differ(base, mod) == normalize_content(base.inner_text) # normalize_content(mod.inner_text)

----------------------------------------------------------------------------
(* StructuralMerger, merging: src/src/core/structural_merger.py            *)

\* str(idx) of the f-strings, for the indices a bounded text can hold (idx < 100)
DigitSeq == <<"0","1","2","3","4","5","6","7","8","9">>
IntStr(idx) ==
    IF idx < 10 THEN <<DigitSeq[idx + 1]>>
    ELSE <<DigitSeq[(idx \div 10) + 1], DigitSeq[(idx % 10) + 1]>>

\* MergeChange
MergeChange(path, change_type, mod_name, content) ==
    [path |-> path, change_type |-> change_type, mod_name |-> mod_name, content |-> content]

\* f"{base_block.name}.{child_name}[{idx}]"
ChildPath(parent_name, child_name, idx) ==
    parent_name \o <<".">> \o child_name \o <<"[">> \o IntStr(idx) \o <<"]">>

\* the text of the message of a skipped_unsafe change, before the child's name
SkippedUnsafeText == <<"s","k","i","p","p","e","d"," ","u","n","s","a","f","e"," ","b","l","o","c","k"," ">>

\* re.search(rf'{re.escape(list_name)}\s*=\s*\{', text): <<start, position of the {>>
\* of the leftmost match, <<0, 0>> when there is none
SearchListOpen(text, list_name) ==
    Let({p \in 1..Len(text) :
            /\ OccursAt(text, list_name, p)
            /\ MatchAssignBrace(text, p + Len(list_name)) > 0}, LAMBDA hits :
        IF hits = {} THEN <<0, 0>>
        ELSE <<Min(hits), MatchAssignBrace(text, Min(hits) + Len(list_name))>>)

\* position of the } that brings the depth counted from the { at brace_start back
\* to 0, every brace counted (0: none)
MatchingClose(text, brace_start) ==
    LET depth(i) == Count(SubSeq(text, brace_start, i), "{")
                    - Count(SubSeq(text, brace_start, i), "}")
    IN  Let({i \in brace_start..Len(text) : text[i] = "}" /\ depth(i) = 0}, LAMBDA hits :
            IF hits = {} THEN 0 ELSE Min(hits))

\* _update_list_in_text, the new text between the braces of the list whose text
\* between the braces is inner
NewListInner(inner, new_items) ==
    Let(Split(inner, "\n"), LAMBDA inner_lines :
    Let([k \in 1..Len(inner_lines) |-> Strip(inner_lines[k])], LAMBDA stripped :
    Let({k \in 1..Len(inner_lines) : stripped[k] # <<>> /\ stripped[k][1] # "#"},
        LAMBDA item_lines :
    Let(IF item_lines = {} THEN <<"\t", "\t">>
        ELSE SubSeq(inner_lines[Min(item_lines)], 1,
                 Len(inner_lines[Min(item_lines)])
                    - Len(LStrip(inner_lines[Min(item_lines)]))), LAMBDA indent :
    Let(SelectSeq(inner_lines, LAMBDA line : Strip(line) # <<>> /\ Strip(line)[1] = "#"),
        LAMBDA comment_lines :
    Let(inner_lines[Len(inner_lines)], LAMBDA last :
        IF HasChar(inner, "\n")
            THEN <<"\n">>
                 \o Join([k \in 1..Len(new_items) |-> indent \o new_items[k]]
                         \o [k \in 1..Len(comment_lines) |-> RStrip(comment_lines[k])],
                         <<"\n">>)
                 \o <<"\n">> \o (IF stripped[Len(inner_lines)] = <<>> THEN last ELSE <<"\t">>)
            ELSE <<" ">> \o Join(new_items, <<" ">>) \o <<" ">>))))))

\* _update_list_in_text.  old_items and old_block_text are not read by the source.
update_list_in_text(text, list_name, old_items, new_items, old_block_text) ==
    Let(SearchListOpen(text, list_name), LAMBDA found :
    Let(MatchingClose(text, found[2]), LAMBDA close :
        LET start_pos == found[1]
            brace_start == found[2]
            \* text[brace_start + 1 : end_pos - 1]; empty when no closing brace was found
            inner == IF close = 0 THEN <<>> ELSE SubSeq(text, brace_start + 1, close - 1)
            \* text[end_pos:]; end_pos stays at brace_start when no closing brace was found
            tail == IF close = 0 THEN From(text, brace_start) ELSE From(text, close + 1)
        IN  IF start_pos = 0 THEN text
            ELSE SubSeq(text, 1, start_pos - 1)
                 \o list_name \o <<" ", "=", " ", "{">> \o NewListInner(inner, new_items)
                 \o <<"}">> \o tail))

\* _normalize_block_content: every line cut at its first #, quoted or not
normalize_block_content(content) ==
    LET CutAtHash(line) == Let(Find(line, <<"#">>), LAMBDA p :
                               IF p > 0 THEN SubSeq(line, 1, p - 1) ELSE line)
    IN  Let(Split(content, "\n"), LAMBDA lines :
            Join(SplitWs(Join(SelectSeq([i \in 1..Len(lines) |-> Strip(CutAtHash(lines[i]))],
                                        LAMBDA l : l # <<>>), <<" ">>)), <<" ">>))

\* the children of a block in the order of `for child_name, children in
\* block.children.items(): for idx, child in enumerate(children)`
ChildSlots(block) ==
    LET RECURSIVE go(_, _)
        go(g, acc) ==
            IF g > Len(block.children) THEN acc
            ELSE go(g + 1, acc \o [k \in 1..Len(block.children[g].blocks) |->
                                      [name |-> block.children[g].name, idx |-> k - 1,
                                       child |-> block.children[g].blocks[k]]])
    IN  go(1, <<>>)

\* the children of all mods in the order of the three nested loops over mod_blocks
ModChildSlots(mod_blocks) ==
    LET RECURSIVE go(_, _)
        go(m, acc) ==
            IF m > Len(mod_blocks) THEN acc
            ELSE Let(ChildSlots(mod_blocks[m].block), LAMBDA slots :
                     go(m + 1, acc \o [k \in 1..Len(slots) |->
                                          [mod_name |-> mod_blocks[m].mod_name,
                                           name |-> slots[k].name, idx |-> slots[k].idx,
                                           child |-> slots[k].child]]))
    IN  go(1, <<>>)

\* full_text of one child re-indented as _merge_gui_container does
ReindentBlock(full_text, indent) ==
    Let(Split(Strip(full_text), "\n"), LAMBDA lines :
    Let([k \in 1..Len(lines) |-> Strip(lines[k])], LAMBDA stripped :
        Join([k \in 1..Len(lines) |->
                 IF stripped[k] # <<>> THEN indent \o stripped[k] ELSE <<>>], <<"\n">>)))

\* mod_child.full_text[:50], the content of an added_gui_block change
GuiContentLen == 50

\* _merge_gui_container, all_blocks[key] = val: the dict normalized -> full_text
\* as a sequence in insertion order
PutBlock(all_blocks, key, val) ==
    IF \E k \in 1..Len(all_blocks) : all_blocks[k].key = key
        THEN [k \in 1..Len(all_blocks) |->
                 IF all_blocks[k].key = key THEN [key |-> key, val |-> val]
                 ELSE all_blocks[k]]
        ELSE Append(all_blocks, [key |-> key, val |-> val])

\* _merge_gui_container, the loop over the children of the mods, for the child of
\* slot s of a mod: st is [all_blocks, changes]
GuiModChild(base_block, st, s) ==
    Let(normalize_block_content(s.child.inner_text), LAMBDA normalized :
        [all_blocks |-> PutBlock(st.all_blocks, normalized, s.child.full_text),
         changes |->
            IF \E j \in 1..Len(st.all_blocks) : st.all_blocks[j].key = normalized
                THEN st.changes
                ELSE Append(st.changes,
                         MergeChange(base_block.name \o <<".">> \o s.name,
                             "added_gui_block", s.mod_name,
                             SubSeq(s.child.full_text, 1,
                                    Min({Len(s.child.full_text), GuiContentLen})))) ])

\* _merge_gui_container: [text, changes]
merge_gui_container(base_block, mod_blocks) ==
    Let(ChildSlots(base_block), LAMBDA base_slots :
    Let(ModChildSlots(mod_blocks), LAMBDA mod_slots :
        LET RECURSIVE fromBase(_, _)
            fromBase(k, all_blocks) ==
                IF k > Len(base_slots) THEN all_blocks
                ELSE fromBase(k + 1, PutBlock(all_blocks,
                         normalize_block_content(base_slots[k].child.inner_text),
                         base_slots[k].child.full_text))
            RECURSIVE fromMods(_, _)
            fromMods(k, st) ==
                IF k > Len(mod_slots) THEN st
                ELSE fromMods(k + 1, GuiModChild(base_block, st, mod_slots[k]))
        IN  Let(fromMods(1, [all_blocks |-> fromBase(1, <<>>), changes |-> <<>>]),
                LAMBDA final :
                [text |-> SubSeq(base_block.full_text, 1, Find(base_block.full_text, <<"{">>))
                          \o <<"\n">>
                          \o Join([k \in 1..Len(final.all_blocks) |->
                                      ReindentBlock(final.all_blocks[k].val,
                                                    base_block.indent \o <<"\t">>)], <<"\n">>)
                          \o <<"\n">> \o base_block.indent \o <<"}">>,
                 changes |-> final.changes])))

\* the (mod_name, mod_children[idx]) of the mods that have a child child_name at idx
ModChildrenAt(mod_blocks, child_name, idx) ==
    Let(SelectSeq(mod_blocks,
            LAMBDA mb : idx < Len(get_all_children(mb.block, child_name))), LAMBDA has :
        [k \in 1..Len(has) |->
            [mod_name |-> has[k].mod_name,
             block |-> get_all_children(has[k].block, child_name)[idx + 1]]])

\* the (mod_name, item) pairs appended to all_items by the ACCUMULATE_LIST loop:
\* the items of the mods' lists in mod order, without those of base and without repeats
NewListItems(base_items, mod_children) ==
    LET RECURSIVE cat(_, _)
        cat(m, acc) ==
            IF m > Len(mod_children) THEN acc
            ELSE cat(m + 1, acc \o [k \in 1..Len(mod_children[m].block.list_items) |->
                                       [mod_name |-> mod_children[m].mod_name,
                                        item |-> mod_children[m].block.list_items[k]]])
    IN  Let(cat(1, <<>>), LAMBDA cand :
        Let(SortedSeq({k \in 1..Len(cand) :
                /\ ~InSeq(cand[k].item, base_items)
                /\ \A j \in 1..(k - 1) : cand[j].item # cand[k].item}), LAMBDA fresh :
            [k \in 1..Len(fresh) |-> cand[fresh[k]]]))

\* _deep_merge_block, ACCUMULATE_LIST branch for the base child of one slot; st is
\* [text, changes], the result_text and the changes appended so far
accumulate_child(base_block, mod_blocks, st, slot) ==
    Let(NewListItems(slot.child.list_items,
            ModChildrenAt(mod_blocks, slot.name, slot.idx)), LAMBDA added :
        LET base_child == slot.child
            all_items == base_child.list_items \o [k \in 1..Len(added) |-> added[k].item]
        IN  IF base_child.list_items = <<>> THEN st
            ELSE [text |-> IF Len(all_items) > Len(base_child.list_items)
                               THEN update_list_in_text(st.text, slot.name,
                                        base_child.list_items, all_items,
                                        base_child.full_text)
                               ELSE st.text,
                  changes |-> st.changes \o [k \in 1..Len(added) |->
                                  MergeChange(ChildPath(base_block.name, slot.name, slot.idx),
                                      "added_list_item", added[k].mod_name, added[k].item)]])

\* _deep_merge_block, REPLACE_WHOLE branch for the base child of one slot: the child
\* of the last mod, in list order, whose child at this index differs from base's
replace_child(base_block, mod_blocks, st, slot) ==
    Let(ModChildrenAt(mod_blocks, slot.name, slot.idx), LAMBDA mod_children :
    Let({k \in 1..Len(mod_children) : blocks_differ(slot.child, mod_children[k].block)},
        LAMBDA changed :
        IF changed = {} THEN st
        ELSE Let(mod_children[Max(changed)], LAMBDA last :
                 [text |-> Replace1(st.text, slot.child.full_text, last.block.full_text),
                  changes |-> Append(st.changes,
                                  MergeChange(ChildPath(base_block.name, slot.name, slot.idx),
                                      "replaced_block", last.mod_name, slot.name))])))

\* the loop that adds the new children of the mods without its question to the
\* rule book: every new child is inserted.  The unsafe-add property must reject it.
add_new_child_unchecked(base_block, st, slot) ==
    Let(RFindChar(st.text, "}"), LAMBDA close_brace_pos :
    Let(ChildPath(base_block.name, slot.name, slot.idx), LAMBDA path :
        IF \/ slot.idx < Len(get_all_children(base_block, slot.name))
           \/ <<slot.name, slot.idx>> \in st.added_blocks
           \/ close_brace_pos <= 1
            THEN st
        ELSE [text |-> SubSeq(st.text, 1, close_brace_pos - 1)
                       \o <<"\n">> \o base_block.indent \o <<"\t">>
                       \o Strip(slot.child.full_text)
                       \o <<"\n">> \o From(st.text, close_brace_pos),
              changes |-> Append(st.changes,
                              MergeChange(path, "added_child_block",
                                  slot.mod_name, slot.name)),
              added_blocks |-> st.added_blocks \cup {<<slot.name, slot.idx>>}]))

\* _deep_merge_block, one iteration of the loop that adds the new children of the
\* mods; st is [text, changes, added_blocks].  The second branch of the source
\* (elif base_count == 0) is never taken: idx >= base_count holds whenever
\* base_count is 0.
add_new_child(base_block, st, slot) ==
    Let(RFindChar(st.text, "}"), LAMBDA close_brace_pos :
    Let(ChildPath(base_block.name, slot.name, slot.idx), LAMBDA path :
        IF \/ slot.idx < Len(get_all_children(base_block, slot.name))
           \/ <<slot.name, slot.idx>> \in st.added_blocks
            THEN st
        ELSE IF is_safe_to_add_child(slot.name, base_block.name)
            THEN IF close_brace_pos > 1
                     THEN [text |-> SubSeq(st.text, 1, close_brace_pos - 1)
                                    \o <<"\n">> \o base_block.indent \o <<"\t">>
                                    \o Strip(slot.child.full_text)
                                    \o <<"\n">> \o From(st.text, close_brace_pos),
                           changes |-> Append(st.changes,
                                           MergeChange(path, "added_child_block",
                                               slot.mod_name, slot.name)),
                           added_blocks |-> st.added_blocks \cup {<<slot.name, slot.idx>>}]
                     ELSE st
            ELSE [st EXCEPT !.changes = Append(@,
                      MergeChange(path, "skipped_unsafe", slot.mod_name,
                          SkippedUnsafeText \o slot.name))]))

\* _deep_merge_block: [text, changes], changes being what the call appends to self.changes
RECURSIVE deep_merge_block(_, _)
deep_merge_block(base_block, mod_blocks) ==
    LET \* RECURSIVE branch for the base child of one slot
        recurse_child(st, slot) ==
            Let(ModChildrenAt(mod_blocks, slot.name, slot.idx), LAMBDA mod_children :
                IF mod_children = <<>> THEN st
                ELSE Let(deep_merge_block(slot.child, mod_children), LAMBDA merged :
                         [text |-> Replace1(st.text, slot.child.full_text, merged.text),
                          changes |-> st.changes \o merged.changes]))
        \* the loop over the children of base
        RECURSIVE existing(_, _, _)
        existing(base_slots, k, st) ==
            IF k > Len(base_slots) THEN st
            ELSE Let(get_merge_strategy(base_slots[k].name, base_block.name),
                     LAMBDA child_strategy :
                     existing(base_slots, k + 1,
                        CASE child_strategy = "ACCUMULATE_LIST" ->
                                 accumulate_child(base_block, mod_blocks, st, base_slots[k])
                          [] child_strategy = "RECURSIVE" -> recurse_child(st, base_slots[k])
                          [] OTHER -> replace_child(base_block, mod_blocks, st, base_slots[k])))
        \* the loop over the children of the mods
        RECURSIVE addNew(_, _, _)
        addNew(mod_slots, k, st) ==
            IF k > Len(mod_slots) THEN st
            ELSE addNew(mod_slots, k + 1, add_new_child(base_block, st, mod_slots[k]))
    IN  IF get_merge_strategy(base_block.name, <<>>) = "REPLACE_WHOLE"
            THEN IF mod_blocks # <<>>
                     THEN [text |-> mod_blocks[Len(mod_blocks)].block.full_text,
                           changes |-> <<MergeChange(base_block.name, "replaced_whole",
                                             mod_blocks[Len(mod_blocks)].mod_name,
                                             base_block.name)>>]
                     ELSE [text |-> base_block.full_text, changes |-> <<>>]
        ELSE IF is_gui_background_container(base_block.name)
            THEN merge_gui_container(base_block, mod_blocks)
        ELSE Let(existing(ChildSlots(base_block), 1,
                          [text |-> base_block.full_text, changes |-> <<>>]),
                 LAMBDA afterExisting :
             Let(addNew(ModChildSlots(mod_blocks), 1,
                        [text |-> afterExisting.text, changes |-> afterExisting.changes,
                         added_blocks |-> {}]), LAMBDA afterNew :
                 [text |-> afterNew.text, changes |-> afterNew.changes]))

----------------------------------------------------------------------------
(* StructureValidator and merge_contents                                   *)

\* [a-zA-Z0-9_]: a word character of \b
IsWordChar(c) == IsNameStart(c)

\* the match of r'([a-z_]+\.\d+)\s*=\s*\{' that ends with the { at position b, as
\* [ok, name, brace].  Read backwards from the brace: blanks, =, blanks, the
\* digits, the dot, and the longest run of [a-z_].
EventAt(content, b) ==
    LET BackSpace(i) == Let({k \in 1..i : ~IsSpace(content[k])}, LAMBDA stop :
                            IF stop = {} THEN 0 ELSE Max(stop))
        RunStart(i, class) == Let({k \in 1..i : content[k] \notin class}, LAMBDA stop :
                                  IF stop = {} THEN 1 ELSE Max(stop) + 1)
    IN  Let(BackSpace(b - 1), LAMBDA eq :
        Let(IF eq > 0 /\ content[eq] = "=" THEN BackSpace(eq - 1) ELSE 0, LAMBDA d_end :
        Let(IF d_end > 0 THEN RunStart(d_end, DigitChars) ELSE 0, LAMBDA d_start :
        Let(IF d_start > 1 /\ d_start <= d_end /\ content[d_start - 1] = "."
                THEN d_start - 1 ELSE 0, LAMBDA dot :
        Let(IF dot > 1 THEN RunStart(dot - 1, LowerChars \cup {"_"}) ELSE 0, LAMBDA n_start :
            IF n_start > 0 /\ n_start < dot
                THEN [ok |-> TRUE, name |-> SubSeq(content, n_start, d_end), brace |-> b]
                ELSE [ok |-> FALSE, name |-> <<>>, brace |-> b])))))

\* the matches of re.finditer(r'([a-z_]+\.\d+)\s*=\s*\{', content), each as
\* [name, brace]: the event name and the position of its {
EventMatches(content) ==
    Let([b \in 1..Len(content) |->
            IF content[b] = "{" THEN EventAt(content, b)
            ELSE [ok |-> FALSE, name |-> <<>>, brace |-> b]], LAMBDA at :
        SelectSeq(at, LAMBDA e : e.ok))

\* len(re.findall(r'\boption\s*=\s*\{', event_content))
OptionCount(event_content) ==
    LET word == <<"o","p","t","i","o","n">>
    IN  Cardinality({p \in 1..Len(event_content) :
            /\ OccursAt(event_content, word, p)
            /\ (p = 1 \/ ~IsWordChar(event_content[p - 1]))
            /\ MatchAssignBrace(event_content, p + Len(word)) > 0})

\* the threshold of StructureValidator._validate_events
SuspiciousOptions == 20

\* the text of the warning of _validate_events, without the count
TooManyOptionsText == <<"s","u","s","p","i","c","i","o","u","s","l","y"," ","m","a","n","y"," ","o","p","t","i","o","n">>

\* _validate_events, the text of the event whose { stands at position b
EventContent(content, b) ==
    Let(MatchingClose(content, b), LAMBDA close :
        IF close = 0 THEN <<>> ELSE SubSeq(content, b + 1, close - 1))

\* StructureValidator.validate: the issues of severity warning, which are those of
\* _validate_events; that check runs when 'events' is in the file name
validation_warnings(content, filename) ==
    IF Contains(filename, <<"e","v","e","n","t","s">>)
        THEN Let(SelectSeq(EventMatches(content),
                     LAMBDA e : OptionCount(EventContent(content, e.brace))
                                   > SuspiciousOptions), LAMBDA suspicious :
                 [k \in 1..Len(suspicious) |->
                     MergeChange(filename \o <<".">> \o suspicious[k].name,
                         "validation_warning", "", TooManyOptionsText)])
        ELSE <<>>

\* ValidationError(path, message, severity)
ValidationError(path, message, severity) ==
    [path |-> path, message |-> message, severity |-> severity]

\* the match of r'^([a-zA-Z0-9_][a-zA-Z0-9_\.]*)\s*=\s*\{' (re.MULTILINE) that
\* starts at position p, as [ok, name]: p is the start of the text or follows a
\* \n, a name stands there, and blanks, =, blanks, { follow the name
BlockOpenAt(content, p) ==
    IF ~(p = 1 \/ content[p - 1] = "\n") \/ ~IsNameStart(content[p])
        THEN [ok |-> FALSE, name |-> <<>>]
        ELSE Let({k \in p..Len(content) : ~(IsNameStart(content[k]) \/ content[k] = ".")},
                 LAMBDA stop :
             Let(IF stop = {} THEN Len(content) ELSE Min(stop) - 1, LAMBDA last :
                 IF MatchAssignBrace(content, last + 1) > 0
                     THEN [ok |-> TRUE, name |-> SubSeq(content, p, last)]
                     ELSE [ok |-> FALSE, name |-> <<>>]))

\* block_pattern.findall(content) of _check_duplicate_blocks: the names, in the
\* order of the text
OpenedBlocks(content) ==
    Let(<<>> \o [p \in 1..Len(content) |-> BlockOpenAt(content, p)], LAMBDA at :
    Let(SelectSeq(at, LAMBDA m : m.ok), LAMBDA found :
        <<>> \o [k \in 1..Len(found) |-> found[k].name]))

\* the text of the error of _check_duplicate_blocks, the name and the count left out
DuplicateEventText == <<"d","u","p","l","i","c","a","t","e","d"," ","e","v","e","n","t">>

\* _check_duplicate_blocks: seen counts the names; a name met more than once that
\* is an event name gives an error, in the order in which the names were first met
check_duplicate_blocks(content, filename) ==
    Let(OpenedBlocks(content), LAMBDA blocks :
    Let([k \in 1..Len(blocks) |->
            Cardinality({j \in 1..Len(blocks) : blocks[j] = blocks[k]})], LAMBDA seen :
    Let(SortedSeq({k \in 1..Len(blocks) :
            /\ \A j \in 1..(k - 1) : blocks[j] # blocks[k]
            /\ seen[k] > 1
            /\ is_event_block(blocks[k])}), LAMBDA duplicated :
        <<>> \o [d \in 1..Len(duplicated) |->
                    ValidationError(filename \o <<".">> \o blocks[duplicated[d]],
                                    DuplicateEventText, "error")])))

\* the text of the error of validate for braces that do not balance
UnbalancedText == <<"u","n","b","a","l","a","n","c","e","d"," ","b","r","a","c","e","s">>

\* _validate_events: a warning for every event with more than 20 options
validate_events(content, filename) ==
    Let(SelectSeq(EventMatches(content),
            LAMBDA e : OptionCount(EventContent(content, e.brace)) > SuspiciousOptions),
        LAMBDA suspicious :
            <<>> \o [k \in 1..Len(suspicious) |->
                        ValidationError(filename \o <<".">> \o suspicious[k].name,
                                        TooManyOptionsText, "warning")])

\* StructureValidator.validate, as [is_valid, issues]: the errors are those of the
\* braces and of the duplicated events, the warnings those of the events, looked
\* for when 'events' is in the file name (which covers the names that end with
\* _events.txt); is_valid says that there is no error; the issues are the errors
\* followed by the warnings
validate(content, filename) ==
    Let((IF validate_braces(content) THEN <<>>
             ELSE <<ValidationError(filename, UnbalancedText, "error")>>)
            \o check_duplicate_blocks(content, filename), LAMBDA errors :
    Let(IF Contains(filename, <<"e","v","e","n","t","s">>)
            THEN validate_events(content, filename) ELSE <<>>, LAMBDA warnings :
        [is_valid |-> errors = <<>>, issues |-> errors \o warnings]))

\* content.replace('\r\n', '\n'): a \r that ends a piece of content.split('\n'), the
\* last piece left aside, stands before a \n and is dropped
NormalizeNewlines(content) ==
    LET DropCR(line) == IF line # <<>> /\ line[Len(line)] = "\r"
                            THEN SubSeq(line, 1, Len(line) - 1) ELSE line
    IN  Let(Split(content, "\n"), LAMBDA lines :
            Join([k \in 1..Len(lines) |-> IF k < Len(lines) THEN DropCR(lines[k]) ELSE lines[k]],
                 <<"\n">>))

\* all_changes[name].append(change) of the dict block_name -> [(mod_name,
\* change_type, block)] kept as a sequence of [name, changes] in insertion order
PutChange(all_changes, name, change) ==
    IF \E k \in 1..Len(all_changes) : all_changes[k].name = name
        THEN [k \in 1..Len(all_changes) |->
                 IF all_changes[k].name = name
                     THEN [all_changes[k] EXCEPT !.changes = Append(@, change)]
                     ELSE all_changes[k]]
        ELSE Append(all_changes, [name |-> name, changes |-> <<change>>])

\* merge_contents, the loop over the mods, for one block of one mod
collect_block(base_blocks, all_changes, mod_name, mod_block) ==
    Let(DictGet(base_blocks, mod_block.name), LAMBDA base_block :
        IF StartsWith(mod_block.name, <<"_", "_">>) THEN all_changes
        ELSE IF base_block = <<>>
            THEN PutChange(all_changes, mod_block.name,
                     [mod_name |-> mod_name, change_type |-> "new", block |-> mod_block])
        ELSE IF blocks_differ(base_block[1], mod_block)
            THEN PutChange(all_changes, mod_block.name,
                     [mod_name |-> mod_name, change_type |-> "modified", block |-> mod_block])
        ELSE all_changes)

\* merge_contents, the loop over the mods: all_changes.  mod_contents is a
\* sequence of [mod_name, content].
collect_changes(base_blocks, mod_contents) ==
    LET RECURSIVE blocksOf(_, _, _, _)
        blocksOf(mod_name, mod_blocks, k, all_changes) ==
            IF k > Len(mod_blocks) THEN all_changes
            ELSE blocksOf(mod_name, mod_blocks, k + 1,
                     collect_block(base_blocks, all_changes, mod_name, mod_blocks[k]))
        RECURSIVE mods(_, _)
        mods(m, all_changes) ==
            IF m > Len(mod_contents) THEN all_changes
            ELSE mods(m + 1, blocksOf(mod_contents[m].mod_name,
                                 parse_top_level_blocks(mod_contents[m].content), 1, all_changes))
    IN  mods(1, <<>>)

\* merge_contents, one iteration of the loop `for block_name, changes in
\* all_changes.items()`: [content, changes], the new result_content and what the
\* iteration appends to self.changes
apply_change(result_content, entry, base_blocks, filename) ==
    Let(DictGet(base_blocks, entry.name), LAMBDA base_block :
    Let(entry.changes[Len(entry.changes)], LAMBDA last :
        IF base_block = <<>>
            THEN [content |-> RStrip(result_content) \o <<"\n", "\n">> \o last.block.full_text,
                  changes |-> <<MergeChange(entry.name, "added_unique_block",
                                    last.mod_name, entry.name)>>]
        ELSE IF get_top_level_strategy(entry.name, filename) = "ATOMIC_ACCUMULATE"
            THEN [content |-> Replace1(result_content, base_block[1].full_text,
                                  last.block.full_text),
                  changes |-> <<MergeChange(entry.name, "replaced_atomic",
                                    last.mod_name, entry.name)>>]
        ELSE Let(deep_merge_block(base_block[1],
                     [k \in 1..Len(entry.changes) |->
                         [mod_name |-> entry.changes[k].mod_name,
                          block |-> entry.changes[k].block]]), LAMBDA merged :
                 [content |-> Replace1(result_content, base_block[1].full_text, merged.text),
                  changes |-> merged.changes])))

\* StructuralMergeResult
StructuralMergeResult(success, content, error, changes) ==
    [success |-> success, content |-> content, error |-> error, changes |-> changes]

\* merge_contents, from the validation to the return; self_changes is self.changes
\* before the validation
finish_merge(result_content, filename, self_changes) ==
    IF ~validate_braces(result_content)
        THEN Let(count_braces(result_content), LAMBDA counts :
                 StructuralMergeResult(FALSE, <<>>,
                     [kind |-> "unbalanced_braces", open |-> counts[1], close |-> counts[2]],
                     <<>>))
        ELSE StructuralMergeResult(TRUE, result_content, [kind |-> "none"],
                 self_changes \o validation_warnings(result_content, filename))

\* merge_contents as one function of its arguments and of self.changes before the
\* call: [result, changes], what it returns and self.changes after it
run_merge_contents(base_content, mod_contents, filename, self_changes) ==
    Let(NormalizeNewlines(base_content), LAMBDA base :
    Let([k \in 1..Len(mod_contents) |->
            [mod_name |-> mod_contents[k].mod_name,
             content |-> NormalizeNewlines(mod_contents[k].content)]], LAMBDA mods :
    Let(parse_top_level_blocks(base), LAMBDA base_blocks :
    Let(collect_changes(base_blocks, mods), LAMBDA all_changes :
        LET RECURSIVE apply(_, _)
            apply(k, st) ==
                IF k > Len(all_changes) THEN st
                ELSE Let(apply_change(st.content, all_changes[k], base_blocks, filename),
                         LAMBDA r :
                         apply(k + 1, [content |-> r.content,
                                       changes |-> st.changes \o r.changes]))
        IN  Let(apply(1, [content |-> base, changes |-> self_changes]), LAMBDA applied :
                [result |-> finish_merge(applied.content, filename, applied.changes),
                 changes |-> applied.changes
                                \o validation_warnings(applied.content, filename)])))))

\* merge_contents: the StructuralMergeResult it returns
merge_contents(base_content, mod_contents, filename, self_changes) ==
    run_merge_contents(base_content, mod_contents, filename, self_changes).result


\* ---------------------------------------------------------------------------
\* The files the merger is run on: for each case a base file and the pool the
\* mods' files are drawn from
\* ---------------------------------------------------------------------------

\* scenario S1 of the specification: two mods each add an item to the same list
\*     on_game_start = { on_actions = { vanilla_init } }
S1_base ==
    <<"o","n","_","g","a","m","e","_","s","t","a","r","t"," ","="," ","{"," ","o","n","_","a","c","t","i","o","n","s"," ","="," ","{"," ","v","a","n","i","l","l","a","_","i","n","i","t"," ","}"," ","}">>

\*     on_game_start = { on_actions = { vanilla_init modA_init } }
S1_modA ==
    <<"o","n","_","g","a","m","e","_","s","t","a","r","t"," ","="," ","{"," ","o","n","_","a","c","t","i","o","n","s"," ","="," ","{"," ","v","a","n","i","l","l","a","_","i","n","i","t"," ","m","o","d","A","_","i","n","i","t"," ","}"," ","}">>

\*     on_game_start = { on_actions = { vanilla_init modB_init } }
S1_modB ==
    <<"o","n","_","g","a","m","e","_","s","t","a","r","t"," ","="," ","{"," ","o","n","_","a","c","t","i","o","n","s"," ","="," ","{"," ","v","a","n","i","l","l","a","_","i","n","i","t"," ","m","o","d","B","_","i","n","i","t"," ","}"," ","}">>

\* the S1 list written over several lines, with comments; mod B drops a base item
\*     on_game_start = {
\*         on_actions = {
\*             vanilla_init # v
\*             other_init
\*         }
\*     }
\*     on_death = {
\*         events = { d.1 }
\*     }
S1m_base ==
    <<"o","n","_","g","a","m","e","_","s","t","a","r","t"," ","="," ","{","\n","\t","o","n","_","a","c","t","i","o","n","s"," ","="," ","{","\n","\t","\t","v","a","n","i","l","l","a","_","i","n","i","t"," ","#"," ","v","\n","\t","\t","o","t","h","e","r","_","i","n","i","t","\n","\t","}","\n","}","\n","o","n","_","d","e","a","t","h"," ","="," ","{","\n","\t","e","v","e","n","t","s"," ","="," ","{"," ","d",".","1"," ","}","\n","}">>

\*     on_game_start = {
\*         on_actions = {
\*             vanilla_init
\*             other_init
\*             modA_init
\*         }
\*     }
\*     on_death = {
\*         events = { d.1 }
\*     }
S1m_modA ==
    <<"o","n","_","g","a","m","e","_","s","t","a","r","t"," ","="," ","{","\n","\t","o","n","_","a","c","t","i","o","n","s"," ","="," ","{","\n","\t","\t","v","a","n","i","l","l","a","_","i","n","i","t","\n","\t","\t","o","t","h","e","r","_","i","n","i","t","\n","\t","\t","m","o","d","A","_","i","n","i","t","\n","\t","}","\n","}","\n","o","n","_","d","e","a","t","h"," ","="," ","{","\n","\t","e","v","e","n","t","s"," ","="," ","{"," ","d",".","1"," ","}","\n","}">>

\*     on_game_start = {
\*         on_actions = {
\*             vanilla_init
\*             modB_init
\*         }
\*     }
\*     on_death = {
\*         events = { d.1 d.2 }
\*     }
S1m_modB ==
    <<"o","n","_","g","a","m","e","_","s","t","a","r","t"," ","="," ","{","\n","\t","o","n","_","a","c","t","i","o","n","s"," ","="," ","{","\n","\t","\t","v","a","n","i","l","l","a","_","i","n","i","t","\n","\t","\t","m","o","d","B","_","i","n","i","t","\n","\t","}","\n","}","\n","o","n","_","d","e","a","t","h"," ","="," ","{","\n","\t","e","v","e","n","t","s"," ","="," ","{"," ","d",".","1"," ","d",".","2"," ","}","\n","}">>

\* a container whose on_actions list is empty in the base
\*     on_game_start = {
\*         on_actions = { }
\*         events = { e.1 }
\*     }
Empty_base ==
    <<"o","n","_","g","a","m","e","_","s","t","a","r","t"," ","="," ","{","\n","\t","o","n","_","a","c","t","i","o","n","s"," ","="," ","{"," ","}","\n","\t","e","v","e","n","t","s"," ","="," ","{"," ","e",".","1"," ","}","\n","}">>

\*     on_game_start = {
\*         on_actions = { modA_init }
\*         events = { e.1 }
\*     }
Empty_modA ==
    <<"o","n","_","g","a","m","e","_","s","t","a","r","t"," ","="," ","{","\n","\t","o","n","_","a","c","t","i","o","n","s"," ","="," ","{"," ","m","o","d","A","_","i","n","i","t"," ","}","\n","\t","e","v","e","n","t","s"," ","="," ","{"," ","e",".","1"," ","}","\n","}">>

\*     on_game_start = {
\*         on_actions = { modB_init }
\*         events = { e.1 e.2 }
\*     }
Empty_modB ==
    <<"o","n","_","g","a","m","e","_","s","t","a","r","t"," ","="," ","{","\n","\t","o","n","_","a","c","t","i","o","n","s"," ","="," ","{"," ","m","o","d","B","_","i","n","i","t"," ","}","\n","\t","e","v","e","n","t","s"," ","="," ","{"," ","e",".","1"," ","e",".","2"," ","}","\n","}">>

\* scenario S3 of the specification, written on one line as the specification writes it
\*     on_birth = { effect = { add_trait = foo } events = { base.1 } }
S3_base ==
    <<"o","n","_","b","i","r","t","h"," ","="," ","{"," ","e","f","f","e","c","t"," ","="," ","{"," ","a","d","d","_","t","r","a","i","t"," ","="," ","f","o","o"," ","}"," ","e","v","e","n","t","s"," ","="," ","{"," ","b","a","s","e",".","1"," ","}"," ","}">>

\*     on_birth = { effect = { add_trait = foo } events = { base.1 modA.1 } }
S3_modA ==
    <<"o","n","_","b","i","r","t","h"," ","="," ","{"," ","e","f","f","e","c","t"," ","="," ","{"," ","a","d","d","_","t","r","a","i","t"," ","="," ","f","o","o"," ","}"," ","e","v","e","n","t","s"," ","="," ","{"," ","b","a","s","e",".","1"," ","m","o","d","A",".","1"," ","}"," ","}">>

\*     on_birth = { effect = { set_culture = bar } events = { base.1 modB.1 } }
S3_modB ==
    <<"o","n","_","b","i","r","t","h"," ","="," ","{"," ","e","f","f","e","c","t"," ","="," ","{"," ","s","e","t","_","c","u","l","t","u","r","e"," ","="," ","b","a","r"," ","}"," ","e","v","e","n","t","s"," ","="," ","{"," ","b","a","s","e",".","1"," ","m","o","d","B",".","1"," ","}"," ","}">>

\* scenario S3 with one child per line
\*     on_birth = {
\*         effect = { add_trait = foo }
\*         events = { base.1 }
\*     }
S3m_base ==
    <<"o","n","_","b","i","r","t","h"," ","="," ","{","\n","\t","e","f","f","e","c","t"," ","="," ","{"," ","a","d","d","_","t","r","a","i","t"," ","="," ","f","o","o"," ","}","\n","\t","e","v","e","n","t","s"," ","="," ","{"," ","b","a","s","e",".","1"," ","}","\n","}">>

\*     on_birth = {
\*         effect = { add_trait = foo }
\*         events = { base.1 modA.1 }
\*     }
S3m_modA ==
    <<"o","n","_","b","i","r","t","h"," ","="," ","{","\n","\t","e","f","f","e","c","t"," ","="," ","{"," ","a","d","d","_","t","r","a","i","t"," ","="," ","f","o","o"," ","}","\n","\t","e","v","e","n","t","s"," ","="," ","{"," ","b","a","s","e",".","1"," ","m","o","d","A",".","1"," ","}","\n","}">>

\*     on_birth = {
\*         effect = { set_culture = bar }
\*         events = { base.1 modB.1 }
\*     }
S3m_modB ==
    <<"o","n","_","b","i","r","t","h"," ","="," ","{","\n","\t","e","f","f","e","c","t"," ","="," ","{"," ","s","e","t","_","c","u","l","t","u","r","e"," ","="," ","b","a","r"," ","}","\n","\t","e","v","e","n","t","s"," ","="," ","{"," ","b","a","s","e",".","1"," ","m","o","d","B",".","1"," ","}","\n","}">>

\* scenario S2 of the specification: two mods change different fields of one event
\*     europe.0001 = {
\*         title = base_title
\*         option = { name = a }
\*     }
\*     europe.0002 = {
\*         title = t2
\*     }
S2_base ==
    <<"e","u","r","o","p","e",".","0","0","0","1"," ","="," ","{","\n","\t","t","i","t","l","e"," ","="," ","b","a","s","e","_","t","i","t","l","e","\n","\t","o","p","t","i","o","n"," ","="," ","{"," ","n","a","m","e"," ","="," ","a"," ","}","\n","}","\n","e","u","r","o","p","e",".","0","0","0","2"," ","="," ","{","\n","\t","t","i","t","l","e"," ","="," ","t","2","\n","}">>

\*     europe.0001 = {
\*         title = modA_title
\*         option = { name = a }
\*     }
\*     europe.0002 = {
\*         title = t2
\*     }
S2_modA ==
    <<"e","u","r","o","p","e",".","0","0","0","1"," ","="," ","{","\n","\t","t","i","t","l","e"," ","="," ","m","o","d","A","_","t","i","t","l","e","\n","\t","o","p","t","i","o","n"," ","="," ","{"," ","n","a","m","e"," ","="," ","a"," ","}","\n","}","\n","e","u","r","o","p","e",".","0","0","0","2"," ","="," ","{","\n","\t","t","i","t","l","e"," ","="," ","t","2","\n","}">>

\*     europe.0001 = {
\*         title = base_title
\*         option = { name = b }
\*     }
\*     europe.0003 = {
\*         title = t3
\*     }
S2_modB ==
    <<"e","u","r","o","p","e",".","0","0","0","1"," ","="," ","{","\n","\t","t","i","t","l","e"," ","="," ","b","a","s","e","_","t","i","t","l","e","\n","\t","o","p","t","i","o","n"," ","="," ","{"," ","n","a","m","e"," ","="," ","b"," ","}","\n","}","\n","e","u","r","o","p","e",".","0","0","0","3"," ","="," ","{","\n","\t","t","i","t","l","e"," ","="," ","t","3","\n","}">>

\* a container with a random_events list before its events list, and one with two events lists
\*     on_x = {
\*         random_events = { r.1 }
\*         events = { e.1 }
\*     }
\*     on_y = {
\*         events = { a.1 }
\*         events = { b.1 }
\*     }
Names_base ==
    <<"o","n","_","x"," ","="," ","{","\n","\t","r","a","n","d","o","m","_","e","v","e","n","t","s"," ","="," ","{"," ","r",".","1"," ","}","\n","\t","e","v","e","n","t","s"," ","="," ","{"," ","e",".","1"," ","}","\n","}","\n","o","n","_","y"," ","="," ","{","\n","\t","e","v","e","n","t","s"," ","="," ","{"," ","a",".","1"," ","}","\n","\t","e","v","e","n","t","s"," ","="," ","{"," ","b",".","1"," ","}","\n","}">>

\*     on_x = {
\*         random_events = { r.1 }
\*         events = { e.1 e.2 }
\*     }
\*     on_y = {
\*         events = { a.1 }
\*         events = { b.1 }
\*     }
Names_modA ==
    <<"o","n","_","x"," ","="," ","{","\n","\t","r","a","n","d","o","m","_","e","v","e","n","t","s"," ","="," ","{"," ","r",".","1"," ","}","\n","\t","e","v","e","n","t","s"," ","="," ","{"," ","e",".","1"," ","e",".","2"," ","}","\n","}","\n","o","n","_","y"," ","="," ","{","\n","\t","e","v","e","n","t","s"," ","="," ","{"," ","a",".","1"," ","}","\n","\t","e","v","e","n","t","s"," ","="," ","{"," ","b",".","1"," ","}","\n","}">>

\*     on_x = {
\*         random_events = { r.1 }
\*         events = { e.1 }
\*     }
\*     on_y = {
\*         events = { a.1 }
\*         events = { b.1 b.2 }
\*     }
Names_modB ==
    <<"o","n","_","x"," ","="," ","{","\n","\t","r","a","n","d","o","m","_","e","v","e","n","t","s"," ","="," ","{"," ","r",".","1"," ","}","\n","\t","e","v","e","n","t","s"," ","="," ","{"," ","e",".","1"," ","}","\n","}","\n","o","n","_","y"," ","="," ","{","\n","\t","e","v","e","n","t","s"," ","="," ","{"," ","a",".","1"," ","}","\n","\t","e","v","e","n","t","s"," ","="," ","{"," ","b",".","1"," ","b",".","2"," ","}","\n","}">>

\* a top-level list block to which the mods add trigger, limit and on_z children
\*     events = {
\*         a.1
\*         first_valid = { x }
\*     }
Unsafe_base ==
    <<"e","v","e","n","t","s"," ","="," ","{","\n","\t","a",".","1","\n","\t","f","i","r","s","t","_","v","a","l","i","d"," ","="," ","{"," ","x"," ","}","\n","}">>

\*     events = {
\*         a.1
\*         first_valid = { x }
\*         trigger = {
\*             b = c
\*         }
\*     }
Unsafe_modA ==
    <<"e","v","e","n","t","s"," ","="," ","{","\n","\t","a",".","1","\n","\t","f","i","r","s","t","_","v","a","l","i","d"," ","="," ","{"," ","x"," ","}","\n","\t","t","r","i","g","g","e","r"," ","="," ","{","\n","\t","\t","b"," ","="," ","c","\n","\t","}","\n","}">>

\*     events = {
\*         a.1
\*         first_valid = { x y }
\*         on_z = { q }
\*         limit = { d }
\*     }
Unsafe_modB ==
    <<"e","v","e","n","t","s"," ","="," ","{","\n","\t","a",".","1","\n","\t","f","i","r","s","t","_","v","a","l","i","d"," ","="," ","{"," ","x"," ","y"," ","}","\n","\t","o","n","_","z"," ","="," ","{"," ","q"," ","}","\n","\t","l","i","m","i","t"," ","="," ","{"," ","d"," ","}","\n","}">>

\* a GUI background container to which the mods add texture variants
\*     character_view_bg = {
\*         texture = {
\*             trigger = { a = b }
\*         }
\*     }
Gui_base ==
    <<"c","h","a","r","a","c","t","e","r","_","v","i","e","w","_","b","g"," ","="," ","{","\n","\t","t","e","x","t","u","r","e"," ","="," ","{","\n","\t","\t","t","r","i","g","g","e","r"," ","="," ","{"," ","a"," ","="," ","b"," ","}","\n","\t","}","\n","}">>

\*     character_view_bg = {
\*         texture = {
\*             trigger = { a = b }
\*         }
\*         texture = {
\*             trigger = { c = d }
\*         }
\*     }
Gui_modA ==
    <<"c","h","a","r","a","c","t","e","r","_","v","i","e","w","_","b","g"," ","="," ","{","\n","\t","t","e","x","t","u","r","e"," ","="," ","{","\n","\t","\t","t","r","i","g","g","e","r"," ","="," ","{"," ","a"," ","="," ","b"," ","}","\n","\t","}","\n","\t","t","e","x","t","u","r","e"," ","="," ","{","\n","\t","\t","t","r","i","g","g","e","r"," ","="," ","{"," ","c"," ","="," ","d"," ","}","\n","\t","}","\n","}">>

\*     character_view_bg = {
\*         texture = {
\*             trigger = { c = d } # same
\*         }
\*         environment = { e }
\*     }
Gui_modB ==
    <<"c","h","a","r","a","c","t","e","r","_","v","i","e","w","_","b","g"," ","="," ","{","\n","\t","t","e","x","t","u","r","e"," ","="," ","{","\n","\t","\t","t","r","i","g","g","e","r"," ","="," ","{"," ","c"," ","="," ","d"," ","}"," ","#"," ","s","a","m","e","\n","\t","}","\n","\t","e","n","v","i","r","o","n","m","e","n","t"," ","="," ","{"," ","e"," ","}","\n","}">>

\* a container in a container; the mods add children at both levels and a new top-level block
\*     on_a = {
\*         on_b = {
\*             events = { a.1 }
\*             if = { x }
\*         }
\*         events = { e.1 }
\*     }
\*     foo = { a }
Nested_base ==
    <<"o","n","_","a"," ","="," ","{","\n","\t","o","n","_","b"," ","="," ","{","\n","\t","\t","e","v","e","n","t","s"," ","="," ","{"," ","a",".","1"," ","}","\n","\t","\t","i","f"," ","="," ","{"," ","x"," ","}","\n","\t","}","\n","\t","e","v","e","n","t","s"," ","="," ","{"," ","e",".","1"," ","}","\n","}","\n","f","o","o"," ","="," ","{"," ","a"," ","}">>

\*     on_a = {
\*         on_b = {
\*             events = { a.1 b.1 }
\*             if = { y }
\*             if = { z }
\*         }
\*         events = { e.1 }
\*     }
\*     foo = { a }
\*     new.1 = { n }
Nested_modA ==
    <<"o","n","_","a"," ","="," ","{","\n","\t","o","n","_","b"," ","="," ","{","\n","\t","\t","e","v","e","n","t","s"," ","="," ","{"," ","a",".","1"," ","b",".","1"," ","}","\n","\t","\t","i","f"," ","="," ","{"," ","y"," ","}","\n","\t","\t","i","f"," ","="," ","{"," ","z"," ","}","\n","\t","}","\n","\t","e","v","e","n","t","s"," ","="," ","{"," ","e",".","1"," ","}","\n","}","\n","f","o","o"," ","="," ","{"," ","a"," ","}","\n","n","e","w",".","1"," ","="," ","{"," ","n"," ","}">>

\*     on_a = {
\*         on_b = {
\*             events = { a.1 }
\*             if = { x }
\*         }
\*         events = { e.1 }
\*         effect = {
\*             x = y
\*         }
\*     }
\*     foo = { b }
Nested_modB ==
    <<"o","n","_","a"," ","="," ","{","\n","\t","o","n","_","b"," ","="," ","{","\n","\t","\t","e","v","e","n","t","s"," ","="," ","{"," ","a",".","1"," ","}","\n","\t","\t","i","f"," ","="," ","{"," ","x"," ","}","\n","\t","}","\n","\t","e","v","e","n","t","s"," ","="," ","{"," ","e",".","1"," ","}","\n","\t","e","f","f","e","c","t"," ","="," ","{","\n","\t","\t","x"," ","="," ","y","\n","\t","}","\n","}","\n","f","o","o"," ","="," ","{"," ","b"," ","}">>

\* a # inside a quoted string next to braces; mod B brings a block that is never closed
\*     x.1 = {
\*         desc = "a#b" # }
\*     }
Quoted_base ==
    <<"x",".","1"," ","="," ","{","\n","\t","d","e","s","c"," ","="," ","\"","a","#","b","\""," ","#"," ","}","\n","}">>

\*     x.1 = {
\*         desc = "b#b" }
\*     }
Quoted_modA ==
    <<"x",".","1"," ","="," ","{","\n","\t","d","e","s","c"," ","="," ","\"","b","#","b","\""," ","}","\n","}">>

\*     x.1 = {
\*         desc = "c#d"
\*     }
\*     new.2 = {
\*         b = {
\*     }
Quoted_modB ==
    <<"x",".","1"," ","="," ","{","\n","\t","d","e","s","c"," ","="," ","\"","c","#","d","\"","\n","}","\n","n","e","w",".","2"," ","="," ","{","\n","\t","b"," ","="," ","{","\n","}">>

\* an event that a comment above it holds a second time
\*     #y.1 = { a }
\*     y.1 = { a }
\*     y.2 = { b }
Copy_base ==
    <<"#","y",".","1"," ","="," ","{"," ","a"," ","}","\n","y",".","1"," ","="," ","{"," ","a"," ","}","\n","y",".","2"," ","="," ","{"," ","b"," ","}">>

\*     #y.1 = { a }
\*     y.1 = { c }
\*     y.2 = { b }
Copy_modA ==
    <<"#","y",".","1"," ","="," ","{"," ","a"," ","}","\n","y",".","1"," ","="," ","{"," ","c"," ","}","\n","y",".","2"," ","="," ","{"," ","b"," ","}">>

\*     y.1 = { d }
\*     y.2 = { b }
Copy_modB ==
    <<"y",".","1"," ","="," ","{"," ","d"," ","}","\n","y",".","2"," ","="," ","{"," ","b"," ","}">>

\* a file with Windows line endings; mod B has Unix line endings
\*     on_x = {\r
\*         events = { e.1 }\r
\*     }\r
\*     foo = { a }\r
\*     
Crlf_base ==
    <<"o","n","_","x"," ","="," ","{","\r","\n","\t","e","v","e","n","t","s"," ","="," ","{"," ","e",".","1"," ","}","\r","\n","}","\r","\n","f","o","o"," ","="," ","{"," ","a"," ","}","\r","\n">>

\*     on_x = {\r
\*         events = { e.1 e.2 }\r
\*     }\r
\*     foo = { a }\r
\*     
Crlf_modA ==
    <<"o","n","_","x"," ","="," ","{","\r","\n","\t","e","v","e","n","t","s"," ","="," ","{"," ","e",".","1"," ","e",".","2"," ","}","\r","\n","}","\r","\n","f","o","o"," ","="," ","{"," ","a"," ","}","\r","\n">>

\*     on_x = {
\*         events = { e.1 }
\*     }
\*     foo = { b }
\*     
Crlf_modB ==
    <<"o","n","_","x"," ","="," ","{","\n","\t","e","v","e","n","t","s"," ","="," ","{"," ","e",".","1"," ","}","\n","}","\n","f","o","o"," ","="," ","{"," ","b"," ","}","\n">>

\* a base file whose last block is never closed; mod B closes it
\*     x.1 = {
\*         desc = a
\*     }
\*     open.2 = {
\*         b = {
\*     }
Open_base ==
    <<"x",".","1"," ","="," ","{","\n","\t","d","e","s","c"," ","="," ","a","\n","}","\n","o","p","e","n",".","2"," ","="," ","{","\n","\t","b"," ","="," ","{","\n","}">>

\*     x.1 = {
\*         desc = b
\*     }
\*     open.2 = {
\*         b = {
\*     }
Open_modA ==
    <<"x",".","1"," ","="," ","{","\n","\t","d","e","s","c"," ","="," ","b","\n","}","\n","o","p","e","n",".","2"," ","="," ","{","\n","\t","b"," ","="," ","{","\n","}">>

\*     x.1 = {
\*         desc = a
\*     }
\*     open.2 = {
\*         b = { }
\*     }
Open_modB ==
    <<"x",".","1"," ","="," ","{","\n","\t","d","e","s","c"," ","="," ","a","\n","}","\n","o","p","e","n",".","2"," ","="," ","{","\n","\t","b"," ","="," ","{"," ","}","\n","}">>

\* an event with 21 options, one more than the validator lets pass; mod B drops one
\*     x.1 = {
\*         option = { }    (21 lines)
\*     }
Options_base ==
    <<"x",".","1"," ","="," ","{","\n","\t","o","p","t","i","o","n"," ","="," ","{"," ","}","\n","\t","o","p","t","i","o","n"," ","="," ","{"," ","}","\n","\t","o","p","t","i","o","n"," ","="," ","{"," ","}","\n","\t","o","p","t","i","o","n"," ","="," ","{"," ","}","\n","\t","o","p","t","i","o","n"," ","="," ","{"," ","}","\n","\t","o","p","t","i","o","n"," ","="," ","{"," ","}","\n","\t","o","p","t","i","o","n"," ","="," ","{"," ","}","\n","\t","o","p","t","i","o","n"," ","="," ","{"," ","}","\n","\t","o","p","t","i","o","n"," ","="," ","{"," ","}","\n","\t","o","p","t","i","o","n"," ","="," ","{"," ","}","\n","\t","o","p","t","i","o","n"," ","="," ","{"," ","}","\n","\t","o","p","t","i","o","n"," ","="," ","{"," ","}","\n","\t","o","p","t","i","o","n"," ","="," ","{"," ","}","\n","\t","o","p","t","i","o","n"," ","="," ","{"," ","}","\n","\t","o","p","t","i","o","n"," ","="," ","{"," ","}","\n","\t","o","p","t","i","o","n"," ","="," ","{"," ","}","\n","\t","o","p","t","i","o","n"," ","="," ","{"," ","}","\n","\t","o","p","t","i","o","n"," ","="," ","{"," ","}","\n","\t","o","p","t","i","o","n"," ","="," ","{"," ","}","\n","\t","o","p","t","i","o","n"," ","="," ","{"," ","}","\n","\t","o","p","t","i","o","n"," ","="," ","{"," ","}","\n","}">>

\*     x.1 = {
\*         title = t
\*         option = { }    (21 lines)
\*     }
Options_modA ==
    <<"x",".","1"," ","="," ","{","\n","\t","t","i","t","l","e"," ","="," ","t","\n","\t","o","p","t","i","o","n"," ","="," ","{"," ","}","\n","\t","o","p","t","i","o","n"," ","="," ","{"," ","}","\n","\t","o","p","t","i","o","n"," ","="," ","{"," ","}","\n","\t","o","p","t","i","o","n"," ","="," ","{"," ","}","\n","\t","o","p","t","i","o","n"," ","="," ","{"," ","}","\n","\t","o","p","t","i","o","n"," ","="," ","{"," ","}","\n","\t","o","p","t","i","o","n"," ","="," ","{"," ","}","\n","\t","o","p","t","i","o","n"," ","="," ","{"," ","}","\n","\t","o","p","t","i","o","n"," ","="," ","{"," ","}","\n","\t","o","p","t","i","o","n"," ","="," ","{"," ","}","\n","\t","o","p","t","i","o","n"," ","="," ","{"," ","}","\n","\t","o","p","t","i","o","n"," ","="," ","{"," ","}","\n","\t","o","p","t","i","o","n"," ","="," ","{"," ","}","\n","\t","o","p","t","i","o","n"," ","="," ","{"," ","}","\n","\t","o","p","t","i","o","n"," ","="," ","{"," ","}","\n","\t","o","p","t","i","o","n"," ","="," ","{"," ","}","\n","\t","o","p","t","i","o","n"," ","="," ","{"," ","}","\n","\t","o","p","t","i","o","n"," ","="," ","{"," ","}","\n","\t","o","p","t","i","o","n"," ","="," ","{"," ","}","\n","\t","o","p","t","i","o","n"," ","="," ","{"," ","}","\n","\t","o","p","t","i","o","n"," ","="," ","{"," ","}","\n","}">>

\*     x.1 = {
\*         option = { }    (20 lines)
\*     }
Options_modB ==
    <<"x",".","1"," ","="," ","{","\n","\t","o","p","t","i","o","n"," ","="," ","{"," ","}","\n","\t","o","p","t","i","o","n"," ","="," ","{"," ","}","\n","\t","o","p","t","i","o","n"," ","="," ","{"," ","}","\n","\t","o","p","t","i","o","n"," ","="," ","{"," ","}","\n","\t","o","p","t","i","o","n"," ","="," ","{"," ","}","\n","\t","o","p","t","i","o","n"," ","="," ","{"," ","}","\n","\t","o","p","t","i","o","n"," ","="," ","{"," ","}","\n","\t","o","p","t","i","o","n"," ","="," ","{"," ","}","\n","\t","o","p","t","i","o","n"," ","="," ","{"," ","}","\n","\t","o","p","t","i","o","n"," ","="," ","{"," ","}","\n","\t","o","p","t","i","o","n"," ","="," ","{"," ","}","\n","\t","o","p","t","i","o","n"," ","="," ","{"," ","}","\n","\t","o","p","t","i","o","n"," ","="," ","{"," ","}","\n","\t","o","p","t","i","o","n"," ","="," ","{"," ","}","\n","\t","o","p","t","i","o","n"," ","="," ","{"," ","}","\n","\t","o","p","t","i","o","n"," ","="," ","{"," ","}","\n","\t","o","p","t","i","o","n"," ","="," ","{"," ","}","\n","\t","o","p","t","i","o","n"," ","="," ","{"," ","}","\n","\t","o","p","t","i","o","n"," ","="," ","{"," ","}","\n","\t","o","p","t","i","o","n"," ","="," ","{"," ","}","\n","}">>

\* scenario S4 of the specification: the base holds an event only as a comment, the mods
\* ship it as a live block with one property changed
\*     #test.1 = {
\*     #    title = a
\*     #    desc = b
\*     #}
\*     other.2 = {
\*         title = c
\*     }
S4_base ==
    <<"#","t","e","s","t",".","1"," ","="," ","{","\n","#","\t","t","i","t","l","e"," ","="," ","a","\n","#","\t","d","e","s","c"," ","="," ","b","\n","#","}","\n","o","t","h","e","r",".","2"," ","="," ","{","\n","\t","t","i","t","l","e"," ","="," ","c","\n","}">>

\*     test.1 = {
\*         title = a
\*         desc = z
\*     }
\*     other.2 = {
\*         title = c
\*     }
S4_modA ==
    <<"t","e","s","t",".","1"," ","="," ","{","\n","\t","t","i","t","l","e"," ","="," ","a","\n","\t","d","e","s","c"," ","="," ","z","\n","}","\n","o","t","h","e","r",".","2"," ","="," ","{","\n","\t","t","i","t","l","e"," ","="," ","c","\n","}">>

\*     test.1 = {
\*         title = y
\*         desc = b
\*     }
\*     other.2 = {
\*         title = d
\*     }
S4_modB ==
    <<"t","e","s","t",".","1"," ","="," ","{","\n","\t","t","i","t","l","e"," ","="," ","y","\n","\t","d","e","s","c"," ","="," ","b","\n","}","\n","o","t","h","e","r",".","2"," ","="," ","{","\n","\t","t","i","t","l","e"," ","="," ","d","\n","}">>


\* a GUI background container to which mod A adds an environment with the inner text of
\* the base's texture, and mod B a texture of its own
\*     character_view_bg = {
\*         texture = {
\*             trigger = { a = b }
\*         }
\*     }
GuiNames_base ==
    <<"c","h","a","r","a","c","t","e","r","_","v","i","e","w","_","b","g"," ","="," ","{","\n","\t","t","e","x","t","u","r","e"," ","="," ","{","\n","\t","\t","t","r","i","g","g","e","r"," ","="," ","{"," ","a"," ","="," ","b"," ","}","\n","\t","}","\n","}">>

\*     character_view_bg = {
\*         texture = {
\*             trigger = { a = b }
\*         }
\*         environment = {
\*             trigger = { a = b }
\*         }
\*     }
GuiNames_modA ==
    <<"c","h","a","r","a","c","t","e","r","_","v","i","e","w","_","b","g"," ","="," ","{","\n","\t","t","e","x","t","u","r","e"," ","="," ","{","\n","\t","\t","t","r","i","g","g","e","r"," ","="," ","{"," ","a"," ","="," ","b"," ","}","\n","\t","}","\n","\t","e","n","v","i","r","o","n","m","e","n","t"," ","="," ","{","\n","\t","\t","t","r","i","g","g","e","r"," ","="," ","{"," ","a"," ","="," ","b"," ","}","\n","\t","}","\n","}">>

\*     character_view_bg = {
\*         texture = {
\*             trigger = { a = b }
\*         }
\*         texture = {
\*             trigger = { c = d }
\*         }
\*     }
GuiNames_modB ==
    <<"c","h","a","r","a","c","t","e","r","_","v","i","e","w","_","b","g"," ","="," ","{","\n","\t","t","e","x","t","u","r","e"," ","="," ","{","\n","\t","\t","t","r","i","g","g","e","r"," ","="," ","{"," ","a"," ","="," ","b"," ","}","\n","\t","}","\n","\t","t","e","x","t","u","r","e"," ","="," ","{","\n","\t","\t","t","r","i","g","g","e","r"," ","="," ","{"," ","c"," ","="," ","d"," ","}","\n","\t","}","\n","}">>


\* two events with the same body, the name of the second the end of the name of
\* the first; mod A changes the second, mod B the first
\*     aa.1 = {
\*     	title = x
\*     }
\*     a.1 = {
\*     	title = x
\*     }
Splice_base ==
    <<"a","a",".","1"," ","="," ","{","\n","\t","t","i","t","l","e"," ","="," ","x","\n","}","\n","a",".","1"," ","="," ","{","\n","\t","t","i","t","l","e"," ","="," ","x","\n","}">>

\*     aa.1 = {
\*     	title = x
\*     }
\*     a.1 = {
\*     	title = y
\*     }
Splice_modA ==
    <<"a","a",".","1"," ","="," ","{","\n","\t","t","i","t","l","e"," ","="," ","x","\n","}","\n","a",".","1"," ","="," ","{","\n","\t","t","i","t","l","e"," ","="," ","y","\n","}">>

\*     aa.1 = {
\*     	title = w
\*     }
\*     a.1 = {
\*     	title = x
\*     }
Splice_modB ==
    <<"a","a",".","1"," ","="," ","{","\n","\t","t","i","t","l","e"," ","="," ","w","\n","}","\n","a",".","1"," ","="," ","{","\n","\t","t","i","t","l","e"," ","="," ","x","\n","}">>

\* two events; mod A puts the text of base's second event inside the first and
\* changes the second; mod B adds a third event
\*     a.1 = {
\*     	title = x
\*     }
\*     b.2 = {
\*     	title = z
\*     }
Inserted_base ==
    <<"a",".","1"," ","="," ","{","\n","\t","t","i","t","l","e"," ","="," ","x","\n","}","\n","b",".","2"," ","="," ","{","\n","\t","t","i","t","l","e"," ","="," ","z","\n","}">>

\*     a.1 = {
\*     	desc = {
\*     b.2 = {
\*     	title = z
\*     }
\*     }
\*     }
\*     b.2 = {
\*     	title = w
\*     }
Inserted_modA ==
    <<"a",".","1"," ","="," ","{","\n","\t","d","e","s","c"," ","="," ","{","\n","b",".","2"," ","="," ","{","\n","\t","t","i","t","l","e"," ","="," ","z","\n","}","\n","}","\n","}","\n","b",".","2"," ","="," ","{","\n","\t","t","i","t","l","e"," ","="," ","w","\n","}">>

\*     a.1 = {
\*     	title = x
\*     }
\*     b.2 = {
\*     	title = z
\*     }
\*     c.3 = {
\*     	title = n
\*     }
Inserted_modB ==
    <<"a",".","1"," ","="," ","{","\n","\t","t","i","t","l","e"," ","="," ","x","\n","}","\n","b",".","2"," ","="," ","{","\n","\t","t","i","t","l","e"," ","="," ","z","\n","}","\n","c",".","3"," ","="," ","{","\n","\t","t","i","t","l","e"," ","="," ","n","\n","}">>

\* a container with three children named if, the first two with the same text;
\* mod A changes the second, mod B the third
\*     on_birth = {
\*     	if = {
\*     		a = 1
\*     	}
\*     	if = {
\*     		a = 1
\*     	}
\*     	if = {
\*     		b = 2
\*     	}
\*     }
Repeat_base ==
    <<"o","n","_","b","i","r","t","h"," ","="," ","{","\n","\t","i","f"," ","="," ","{","\n","\t","\t","a"," ","="," ","1","\n","\t","}","\n","\t","i","f"," ","="," ","{","\n","\t","\t","a"," ","="," ","1","\n","\t","}","\n","\t","i","f"," ","="," ","{","\n","\t","\t","b"," ","="," ","2","\n","\t","}","\n","}">>

\*     on_birth = {
\*     	if = {
\*     		a = 1
\*     	}
\*     	if = {
\*     		a = 9
\*     	}
\*     	if = {
\*     		b = 2
\*     	}
\*     }
Repeat_modA ==
    <<"o","n","_","b","i","r","t","h"," ","="," ","{","\n","\t","i","f"," ","="," ","{","\n","\t","\t","a"," ","="," ","1","\n","\t","}","\n","\t","i","f"," ","="," ","{","\n","\t","\t","a"," ","="," ","9","\n","\t","}","\n","\t","i","f"," ","="," ","{","\n","\t","\t","b"," ","="," ","2","\n","\t","}","\n","}">>

\*     on_birth = {
\*     	if = {
\*     		a = 1
\*     	}
\*     	if = {
\*     		a = 1
\*     	}
\*     	if = {
\*     		b = 7
\*     	}
\*     }
Repeat_modB ==
    <<"o","n","_","b","i","r","t","h"," ","="," ","{","\n","\t","i","f"," ","="," ","{","\n","\t","\t","a"," ","="," ","1","\n","\t","}","\n","\t","i","f"," ","="," ","{","\n","\t","\t","a"," ","="," ","1","\n","\t","}","\n","\t","i","f"," ","="," ","{","\n","\t","\t","b"," ","="," ","7","\n","\t","}","\n","}">>

\* a container; each mod adds a child named effect, with its own content
\*     on_birth = {
\*     	events = { e.1 }
\*     }
NewChild_base ==
    <<"o","n","_","b","i","r","t","h"," ","="," ","{","\n","\t","e","v","e","n","t","s"," ","="," ","{"," ","e",".","1"," ","}","\n","}">>

\*     on_birth = {
\*     	events = { e.1 }
\*     	effect = { a = 1 }
\*     }
NewChild_modA ==
    <<"o","n","_","b","i","r","t","h"," ","="," ","{","\n","\t","e","v","e","n","t","s"," ","="," ","{"," ","e",".","1"," ","}","\n","\t","e","f","f","e","c","t"," ","="," ","{"," ","a"," ","="," ","1"," ","}","\n","}">>

\*     on_birth = {
\*     	events = { e.1 }
\*     	effect = { a = 2 }
\*     }
NewChild_modB ==
    <<"o","n","_","b","i","r","t","h"," ","="," ","{","\n","\t","e","v","e","n","t","s"," ","="," ","{"," ","e",".","1"," ","}","\n","\t","e","f","f","e","c","t"," ","="," ","{"," ","a"," ","="," ","2"," ","}","\n","}">>

\* the NewChild texts with a comment that holds a } after the closing brace
\*     on_birth = {
\*     	events = { e.1 }
\*     } # }
Tail_base ==
    <<"o","n","_","b","i","r","t","h"," ","="," ","{","\n","\t","e","v","e","n","t","s"," ","="," ","{"," ","e",".","1"," ","}","\n","}"," ","#"," ","}">>

\*     on_birth = {
\*     	events = { e.1 }
\*     	effect = { a = 1 }
\*     } # }
Tail_modA ==
    <<"o","n","_","b","i","r","t","h"," ","="," ","{","\n","\t","e","v","e","n","t","s"," ","="," ","{"," ","e",".","1"," ","}","\n","\t","e","f","f","e","c","t"," ","="," ","{"," ","a"," ","="," ","1"," ","}","\n","}"," ","#"," ","}">>

\*     on_birth = {
\*     	events = { e.1 }
\*     	effect = { a = 2 }
\*     } # }
Tail_modB ==
    <<"o","n","_","b","i","r","t","h"," ","="," ","{","\n","\t","e","v","e","n","t","s"," ","="," ","{"," ","e",".","1"," ","}","\n","\t","e","f","f","e","c","t"," ","="," ","{"," ","a"," ","="," ","2"," ","}","\n","}"," ","#"," ","}">>

\* for each case the base file and the pool the mods' files are drawn from: the
\* two mods' versions and the base's own, which a mod may carry unchanged
Cases == <<
    [base |-> S1_base, pool |-> <<S1_modA, S1_modB, S1_base>>],
    [base |-> S1m_base, pool |-> <<S1m_modA, S1m_modB, S1m_base>>],
    [base |-> Empty_base, pool |-> <<Empty_modA, Empty_modB, Empty_base>>],
    [base |-> S3_base, pool |-> <<S3_modA, S3_modB, S3_base>>],
    [base |-> S3m_base, pool |-> <<S3m_modA, S3m_modB, S3m_base>>],
    [base |-> S2_base, pool |-> <<S2_modA, S2_modB, S2_base>>],
    [base |-> Names_base, pool |-> <<Names_modA, Names_modB, Names_base>>],
    [base |-> Unsafe_base, pool |-> <<Unsafe_modA, Unsafe_modB, Unsafe_base>>],
    [base |-> Gui_base, pool |-> <<Gui_modA, Gui_modB, Gui_base>>],
    [base |-> Nested_base, pool |-> <<Nested_modA, Nested_modB, Nested_base>>],
    [base |-> Quoted_base, pool |-> <<Quoted_modA, Quoted_modB, Quoted_base>>],
    [base |-> Copy_base, pool |-> <<Copy_modA, Copy_modB, Copy_base>>],
    [base |-> Crlf_base, pool |-> <<Crlf_modA, Crlf_modB, Crlf_base>>],
    [base |-> Open_base, pool |-> <<Open_modA, Open_modB, Open_base>>],
    [base |-> Options_base, pool |-> <<Options_modA, Options_modB, Options_base>>],
    [base |-> S4_base, pool |-> <<S4_modA, S4_modB, S4_base>>],
    [base |-> GuiNames_base, pool |-> <<GuiNames_modA, GuiNames_modB, GuiNames_base>>],
    [base |-> Splice_base, pool |-> <<Splice_modA, Splice_modB, Splice_base>>],
    [base |-> Inserted_base, pool |-> <<Inserted_modA, Inserted_modB, Inserted_base>>],
    [base |-> Repeat_base, pool |-> <<Repeat_modA, Repeat_modB, Repeat_base>>],
    [base |-> NewChild_base, pool |-> <<NewChild_modA, NewChild_modB, NewChild_base>>],
    [base |-> Tail_base, pool |-> <<Tail_modA, Tail_modB, Tail_base>>] >>


\* ---------------------------------------------------------------------------
\* SmartPatchGenerator: the orchestrator
\* ---------------------------------------------------------------------------

\* SmartPatchGenerator.MERGEABLE_EXTENSIONS
MERGEABLE_EXTENSIONS == { <<".","t","x","t">>, <<".","g","u","i">>, <<".","g","f","x">> }

\* SmartPatchGenerator.MERGEABLE_FOLDERS
MERGEABLE_FOLDERS == {
    <<"c","o","m","m","o","n">>, <<"e","v","e","n","t","s">>, <<"h","i","s","t","o","r","y">>, <<"d","e","c","i","s","i","o","n","s">>, <<"g","u","i">>, <<"i","n","t","e","r","f","a","c","e">>,
    <<"g","f","x">>, <<"s","c","r","i","p","t","e","d","_","t","r","i","g","g","e","r","s">>, <<"s","c","r","i","p","t","e","d","_","e","f","f","e","c","t","s">>, <<"o","n","_","a","c","t","i","o","n","s">> }

\* SmartPatchGenerator.IGNORED_FOLDERS
IGNORED_FOLDERS == {
    <<"f","o","n","t","s">>, <<"m","u","s","i","c">>, <<"s","o","u","n","d">>, <<"t","o","o","l","s">>, <<"d","l","c">>, <<"d","l","c","_","m","e","t","a","d","a","t","a">>,
    <<"l","o","c","a","l","i","z","a","t","i","o","n">>, <<"m","a","p","_","d","a","t","a">>, <<"c","o","n","t","e","n","t","_","s","o","u","r","c","e">>, <<"p","o","r","t","r","a","i","t","s">>,
    <<"c","o","a","t","_","o","f","_","a","r","m","s">> }

\* Path(relative_path).suffix: from the last dot of the last part, when that dot
\* is not the part's first character
PathSuffix(relative_path) ==
    Let(Split(relative_path, "/"), LAMBDA parts :
    Let(parts[Len(parts)], LAMBDA last :
    Let(RFindChar(last, "."), LAMBDA dot :
        IF dot > 1 THEN From(last, dot) ELSE <<>>)))

\* _is_mergeable
is_mergeable(relative_path) ==
    Let(SelectSeq(Split(relative_path, "/"), LAMBDA p : p # <<>>), LAMBDA parts :
        /\ Lower(PathSuffix(relative_path)) \in MERGEABLE_EXTENSIONS
        /\ parts # <<>> =>
              Let(Lower(parts[1]), LAMBDA top_folder :
                  /\ top_folder \notin { Lower(f) : f \in IGNORED_FOLDERS }
                  /\ top_folder \in { Lower(f) : f \in MERGEABLE_FOLDERS }))

\* SmartPatchGenerator._normalize_content: every line is cut at its first #, be it
\* inside a quoted string or not, and stripped; the lines that are left are
\* joined and lose their spaces, tabs and \r
SmartPatchGenerator_normalize_content(content) ==
    LET Cut(line) == IF HasChar(line, "#")
                         THEN SubSeq(line, 1, Find(line, <<"#">>) - 1)
                         ELSE line
    IN  Let(Split(content, "\n"), LAMBDA lines :
            SelectSeq(Join(SelectSeq([k \in 1..Len(lines) |-> Strip(Cut(lines[k]))],
                                     LAMBDA line : line # <<>>), <<>>),
                      LAMBDA c : c \notin {" ", "\t", "\r"}))

\* a file on disk: [exists, readable, content]; a file that exists and cannot be
\* read raises in open() or in the decoding
File(content) == [exists |-> TRUE, readable |-> TRUE, content |-> content]
Unreadable == [exists |-> TRUE, readable |-> FALSE, content |-> <<>>]
Missing == [exists |-> FALSE, readable |-> FALSE, content |-> <<>>]

\* a filter that drops nothing: every source is handed on.  The property of the
\* unchanged mods must reject it.
all_sources(base_file, sources) == sources

\* generate_patch, the filter of the loop: changed_sources, the sources whose
\* file differs from the base's after normalisation, or cannot be read; all of
\* them when the base cannot be read.  sources is [(mod_name, file), ...]
changed_sources(base_file, sources) ==
    LET Changed(source) ==
            \/ ~base_file.readable
            \/ ~source.file.readable
            \/ SmartPatchGenerator_normalize_content(source.file.content)
                  # SmartPatchGenerator_normalize_content(base_file.content)
    IN  SelectSeq(sources, Changed)

\* merge_file without `self.changes = []`: what the call would do were the list
\* of the previous call kept
merge_file_keeps_changes(base_file, mod_files, self_changes) ==
    IF ~base_file.readable \/ \E k \in 1..Len(mod_files) : ~mod_files[k].file.readable
        THEN [result |-> StructuralMergeResult(FALSE, <<>>, [kind |-> "read_error"], <<>>),
              changes |-> self_changes]
        ELSE run_merge_contents(base_file.content,
                 [k \in 1..Len(mod_files) |->
                     [mod_name |-> mod_files[k].mod_name,
                      content |-> mod_files[k].file.content]],
                 <<>>, self_changes)

\* merge_file: [result, changes], what the call returns and self.changes after
\* it; self_changes is self.changes before it, which the call empties first.
\* mod_files is [(mod_name, file), ...]
merge_file(base_file, mod_files, self_changes) ==
    IF ~base_file.readable \/ \E k \in 1..Len(mod_files) : ~mod_files[k].file.readable
        THEN [result |-> StructuralMergeResult(FALSE, <<>>, [kind |-> "read_error"], <<>>),
              changes |-> <<>>]
        ELSE run_merge_contents(base_file.content,
                 [k \in 1..Len(mod_files) |->
                     [mod_name |-> mod_files[k].mod_name,
                      content |-> mod_files[k].file.content]],
                 <<>>, <<>>)

\* the statistics an earlier run left behind: what the counters would start from if
\* generate_patch did not make a new PatchStats
PatchStatsKept == [total_files |-> 0, merged_files |-> 0, copied_files |-> 0,
                   skipped_files |-> 1, failed_files |-> 0, errors |-> <<>>,
                   warnings |-> <<>>]

\* PatchStats()
PatchStats == [total_files |-> 0, merged_files |-> 0, copied_files |-> 0,
               skipped_files |-> 0, failed_files |-> 0, errors |-> <<>>,
               warnings |-> <<>>]

\* generate_patch, the body of the loop `for i, (relative_path, sources) in
\* enumerate(mod_files.items())` for one collected file [relative_path, base,
\* sources], on a merger whose self.changes is self_changes:
\*   handed  - changed_sources, as the names of the mods
\*   invoked - merger.merge_file was called
\*   written - what was written to output_path / relative_path: nothing, or one text
\*   counted - the counter of self.stats that was incremented
\*   errors  - what was appended to self.stats.errors
\*   changes - the merger's self.changes afterwards
process_file(file, self_changes) ==
    LET Outcome(h, i, w, c, e, ch) ==
            [handed |-> h, invoked |-> i, written |-> w, counted |-> c, errors |-> e,
             changes |-> ch]
    IN  Let(changed_sources(file.base, file.sources), LAMBDA changed :
        Let([k \in 1..Len(changed) |-> changed[k].mod_name], LAMBDA handed :
        Let(merge_file(file.base, changed, self_changes), LAMBDA merged :
            IF ~file.base.exists
                THEN Outcome(<<>>, FALSE, <<>>, "skipped_files", <<>>, self_changes)
            ELSE IF changed = <<>>
                THEN Outcome(handed, FALSE, <<>>, "skipped_files", <<>>, self_changes)
            ELSE IF is_mergeable(file.relative_path)
                THEN IF merged.result.success
                         THEN IF merged.result.changes # <<>>
                                  THEN Outcome(handed, TRUE, <<merged.result.content>>,
                                               "merged_files", <<>>, merged.changes)
                                  ELSE Outcome(handed, TRUE, <<>>, "skipped_files", <<>>,
                                               merged.changes)
                         ELSE Outcome(handed, TRUE, <<>>, "failed_files",
                                      <<[file |-> file.relative_path,
                                         error |-> merged.result.error]>>, merged.changes)
            ELSE Outcome(handed, FALSE, <<changed[Len(changed)].file.content>>,
                         "copied_files", <<>>, self_changes))))

\* ---------------------------------------------------------------------------
\* The collected files generate_patch is run on
\* ---------------------------------------------------------------------------

\* the S1 base with a comment added
\*     on_game_start = { on_actions = { vanilla_init } } # checked by mod A
\*     
S1_commented ==
    <<"o","n","_","g","a","m","e","_","s","t","a","r","t"," ","="," ","{"," ","o","n","_","a","c","t","i","o","n","s"," ","="," ","{"," ","v","a","n","i","l","l","a","_","i","n","i","t"," ","}"," ","}"," ","#"," ","c","h","e","c","k","e","d"," ","b","y"," ","m","o","d"," ","A","\n">>

\* the S1 base with other spacing
\*     on_game_start = {
\*         on_actions = { vanilla_init }
\*     }
\*     
S1_spaced ==
    <<"o","n","_","g","a","m","e","_","s","t","a","r","t"," ","="," ","{","\n","\t","o","n","_","a","c","t","i","o","n","s"," ","="," ","{"," ","v","a","n","i","l","l","a","_","i","n","i","t"," ","}","\n","}","\n">>

\* the S2 base with a comment added
\*     # copy of the base game's file
\*     europe.0001 = {
\*         title = base_title
\*         option = { name = a }
\*     }
\*     europe.0002 = {
\*         title = t2
\*     }
S2_commented ==
    <<"#"," ","c","o","p","y"," ","o","f"," ","t","h","e"," ","b","a","s","e"," ","g","a","m","e","'","s"," ","f","i","l","e","\n","e","u","r","o","p","e",".","0","0","0","1"," ","="," ","{","\n","\t","t","i","t","l","e"," ","="," ","b","a","s","e","_","t","i","t","l","e","\n","\t","o","p","t","i","o","n"," ","="," ","{"," ","n","a","m","e"," ","="," ","a"," ","}","\n","}","\n","e","u","r","o","p","e",".","0","0","0","2"," ","="," ","{","\n","\t","t","i","t","l","e"," ","="," ","t","2","\n","}">>

\*     NDefines.NGame.START = 1
Lua_base ==
    <<"N","D","e","f","i","n","e","s",".","N","G","a","m","e",".","S","T","A","R","T"," ","="," ","1">>

\*     NDefines.NGame.START = 2
Lua_modA ==
    <<"N","D","e","f","i","n","e","s",".","N","G","a","m","e",".","S","T","A","R","T"," ","="," ","2">>

\*     a = b
\*     on_x = {
\*         events = { e.1 }
\*     }
Scalar_base ==
    <<"a"," ","="," ","b","\n","o","n","_","x"," ","="," ","{","\n","\t","e","v","e","n","t","s"," ","="," ","{"," ","e",".","1"," ","}","\n","}">>

\*     a = c
\*     on_x = {
\*         events = { e.1 }
\*     }
Scalar_modA ==
    <<"a"," ","="," ","c","\n","o","n","_","x"," ","="," ","{","\n","\t","e","v","e","n","t","s"," ","="," ","{"," ","e",".","1"," ","}","\n","}">>

\*     x.1 = {
\*         desc = "a#b"
\*     }
Hash_base ==
    <<"x",".","1"," ","="," ","{","\n","\t","d","e","s","c"," ","="," ","\"","a","#","b","\"","\n","}">>

\*     x.1 = {
\*         desc = "a#c"
\*     }
Hash_modA ==
    <<"x",".","1"," ","="," ","{","\n","\t","d","e","s","c"," ","="," ","\"","a","#","c","\"","\n","}">>

\* common/on_action/start.txt: both mods add to a list: the file is merged
StartFile ==
    [relative_path |-> <<"c","o","m","m","o","n","/","o","n","_","a","c","t","i","o","n","/","s","t","a","r","t",".","t","x","t">>,
     base |-> File(S1_base),
     sources |-> << [mod_name |-> "modA", file |-> File(S1_modA)],
                    [mod_name |-> "modB", file |-> File(S1_modB)] >>]

\* events/bad.txt: mod B brings a block that is never closed: the merge fails
BadFile ==
    [relative_path |-> <<"e","v","e","n","t","s","/","b","a","d",".","t","x","t">>,
     base |-> File(Quoted_base),
     sources |-> << [mod_name |-> "modA", file |-> File(Quoted_modA)],
                    [mod_name |-> "modB", file |-> File(Quoted_modB)] >>]

\* common/on_action/same.txt: both mods carry the base's file, one with a comment added, one with other spacing
SameFile ==
    [relative_path |-> <<"c","o","m","m","o","n","/","o","n","_","a","c","t","i","o","n","/","s","a","m","e",".","t","x","t">>,
     base |-> File(S1_base),
     sources |-> << [mod_name |-> "modA", file |-> File(S1_commented)],
                    [mod_name |-> "modB", file |-> File(S1_spaced)] >>]

\* events/mixed.txt: mod A carries the base's file with a comment added, mod B changes an event
MixedFile ==
    [relative_path |-> <<"e","v","e","n","t","s","/","m","i","x","e","d",".","t","x","t">>,
     base |-> File(S2_base),
     sources |-> << [mod_name |-> "modA", file |-> File(S2_commented)],
                    [mod_name |-> "modB", file |-> File(S2_modB)] >>]

\* common/defines/x.lua: a file that is not mergeable: mod A changes it, mod B carries the base's file
LuaFile ==
    [relative_path |-> <<"c","o","m","m","o","n","/","d","e","f","i","n","e","s","/","x",".","l","u","a">>,
     base |-> File(Lua_base),
     sources |-> << [mod_name |-> "modA", file |-> File(Lua_modA)],
                    [mod_name |-> "modB", file |-> File(Lua_base)] >>]

\* common/scalar.txt: mod A changes a top-level assignment, which is no block: the merge changes nothing
ScalarFile ==
    [relative_path |-> <<"c","o","m","m","o","n","/","s","c","a","l","a","r",".","t","x","t">>,
     base |-> File(Scalar_base),
     sources |-> << [mod_name |-> "modA", file |-> File(Scalar_modA)] >>]

\* events/hash.txt: mod A changes the text after a # inside a quoted string
HashFile ==
    [relative_path |-> <<"e","v","e","n","t","s","/","h","a","s","h",".","t","x","t">>,
     base |-> File(Hash_base),
     sources |-> << [mod_name |-> "modA", file |-> File(Hash_modA)] >>]

\* events/new.txt: a file the base does not have
NewFile ==
    [relative_path |-> <<"e","v","e","n","t","s","/","n","e","w",".","t","x","t">>,
     base |-> Missing,
     sources |-> << [mod_name |-> "modA", file |-> File(S2_modB)] >>]

\* gui/broken.gui: mod A's file cannot be read
BrokenFile ==
    [relative_path |-> <<"g","u","i","/","b","r","o","k","e","n",".","g","u","i">>,
     base |-> File(Gui_base),
     sources |-> << [mod_name |-> "modA", file |-> Unreadable],
                    [mod_name |-> "modB", file |-> File(Gui_modA)] >>]

\* events/start.txt: an on_action block in a file of an atomic context; both mods add to its list
EventsStartFile ==
    [relative_path |-> <<"e","v","e","n","t","s","/","s","t","a","r","t",".","t","x","t">>,
     base |-> File(S1_base),
     sources |-> << [mod_name |-> "modA", file |-> File(S1_modA)],
                    [mod_name |-> "modB", file |-> File(S1_modB)] >>]

\* mod_files, the files _collect_mod_files may return
CollectedFiles == { StartFile,
                    BadFile,
                    SameFile,
                    MixedFile,
                    LuaFile,
                    ScalarFile,
                    HashFile,
                    NewFile,
                    BrokenFile,
                    EventsStartFile }


\* ---------------------------------------------------------------------------
\* pdx_parser.py: PdxParser.parse and PdxSerializer
\* ---------------------------------------------------------------------------

\* PdxNode; is_commented stays False in every node parse makes
PdxNode(node_type, name, value, children, comment, raw_line, indent) ==
    [node_type |-> node_type, name |-> name, value |-> value, children |-> children,
     comment |-> comment, raw_line |-> raw_line, indent |-> indent]

\* PdxParser._find_comment_pos: position of the first # outside "..." (0: none)
find_comment_pos(line) == find_comment_start(line)

\* the blanks the scanner of _parse_inline_content steps over: ' \t'
IsBlank(c) == c \in {" ", "\t"}

\* first position at or after i that holds a character of stop (Len(s) + 1: none)
ScanTo(s, i, stop) ==
    Let({k \in i..Len(s) : s[k] \in stop}, LAMBDA hits :
        IF hits = {} THEN Len(s) + 1 ELSE Min(hits))

\* first position at or after i that holds no blank (Len(s) + 1: none)
SkipBlank(s, i) ==
    Let({k \in i..Len(s) : ~IsBlank(s[k])}, LAMBDA hits :
        IF hits = {} THEN Len(s) + 1 ELSE Min(hits))

\* _parse_inline_content, the loop `while i < len(content) and depth > 0` started
\* behind a {: the position behind the } that closes it (Len(content) + 1 when
\* the text ends first)
InlineBlockEnd(content, block_start) ==
    LET depth(i) == 1 + Count(SubSeq(content, block_start, i), "{")
                      - Count(SubSeq(content, block_start, i), "}")
    IN  Let({i \in block_start..Len(content) : depth(i) = 0}, LAMBDA hits :
            IF hits = {} THEN Len(content) + 1 ELSE Min(hits) + 1)

\* _parse_inline_content: the nodes of the content of a one-line block
RECURSIVE parse_inline_content(_)
parse_inline_content(text) ==
    Let(Strip(text), LAMBDA content :
        LET \* one iteration of `while i < len(content)` at position i: [i, children]
            Iteration(i, children) ==
                Let(SkipBlank(content, i), LAMBDA token_start :
                Let(ScanTo(content, token_start, {" ", "\t", "=", "{", "}"}), LAMBDA token_end :
                Let(Strip(SubSeq(content, token_start, token_end - 1)), LAMBDA token :
                Let(SkipBlank(content, token_end), LAMBDA after :
                    IF token_start > Len(content)
                        THEN [i |-> token_start, children |-> children]
                    ELSE IF token = <<>>
                        THEN [i |-> token_end + 1, children |-> children]
                    ELSE IF after <= Len(content) /\ content[after] = "="
                        THEN Let(SkipBlank(content, after + 1), LAMBDA open :
                             IF open <= Len(content) /\ content[open] = "{"
                                 THEN Let(InlineBlockEnd(content, open + 1), LAMBDA end :
                                      Let(Strip(SubSeq(content, open + 1, end - 2)),
                                          LAMBDA block_content :
                                          [i |-> end,
                                           children |-> Append(children,
                                               PdxNode("block", token, <<>>,
                                                   IF block_content = <<>> THEN <<>>
                                                   ELSE parse_inline_content(block_content),
                                                   <<>>, <<>>, <<>>))]))
                                 ELSE Let(ScanTo(content, open, {" ", "\t", "{", "}"}),
                                          LAMBDA value_end :
                                          [i |-> value_end,
                                           children |-> Append(children,
                                               PdxNode("property", token,
                                                   Strip(SubSeq(content, open, value_end - 1)),
                                                   <<>>, <<>>, <<>>, <<>>))]))
                    ELSE [i |-> after,
                          children |-> Append(children,
                              PdxNode("list_item", <<>>, token, <<>>, <<>>, <<>>, <<>>))]))))
            RECURSIVE go(_)
            go(at) == IF at.i > Len(content) THEN at.children
                      ELSE go(Iteration(at.i, at.children))
        IN  go([i |-> 1, children |-> <<>>]))

\* re.match(r'^([a-zA-Z0-9_][a-zA-Z0-9_\.:\s]*?)\s*=\s*\{(.*)$', remaining), as
\* [ok, name, rest]: group 1 stripped and group 2.  The name may hold blanks; it
\* ends before the first character that is neither a name character nor a blank,
\* which has to be the =
MatchPdxBlock(remaining) ==
    Let({j \in 2..Len(remaining) : ~(IsNameChar(remaining[j]) \/ IsSpace(remaining[j]))},
        LAMBDA stop :
    Let(IF remaining # <<>> /\ IsNameStart(remaining[1]) /\ stop # {}
            THEN MatchAssignBrace(remaining, Min(stop)) ELSE 0, LAMBDA br :
        IF br = 0 THEN [ok |-> FALSE, name |-> <<>>, rest |-> <<>>]
        ELSE [ok |-> TRUE, name |-> Strip(SubSeq(remaining, 1, Min(stop) - 1)),
              rest |-> From(remaining, br + 1)]))

\* re.match(r'^([a-zA-Z0-9_][a-zA-Z0-9_\.:]*)\s*=\s*(.+)$', remaining), as
\* [ok, name, value]: group 1 and group 2 stripped.  remaining is stripped, so
\* group 2 matches whenever a character follows the =
MatchPdxProperty(remaining) ==
    Let(NameLen(remaining), LAMBDA n :
    Let(SkipSpace(remaining, n + 1), LAMBDA eq :
        IF n > 0 /\ eq < Len(remaining) /\ remaining[eq] = "="
            THEN [ok |-> TRUE, name |-> SubSeq(remaining, 1, n),
                  value |-> Strip(From(remaining, eq + 1))]
            ELSE [ok |-> FALSE, name |-> <<>>, value |-> <<>>]))

\* re.match(r'^([a-zA-Z0-9_\.:]+)(.*)$', remaining), as [ok, value, rest]
MatchPdxListItem(remaining) ==
    Let({j \in 1..Len(remaining) : ~IsNameChar(remaining[j])}, LAMBDA stop :
    Let(IF stop = {} THEN Len(remaining) ELSE Min(stop) - 1, LAMBDA n :
        IF n > 0 THEN [ok |-> TRUE, value |-> SubSeq(remaining, 1, n),
                       rest |-> From(remaining, n + 1)]
        ELSE [ok |-> FALSE, value |-> <<>>, rest |-> <<>>]))

\* parse, `while temp.startswith('}')`: the number of } the active part of the
\* line starts with, blanks between them stepped over
LeadingClose(line_for_braces) ==
    LET RECURSIVE go(_, _)
        go(temp, leading_close) ==
            IF temp # <<>> /\ temp[1] = "}"
                THEN go(LStrip(From(temp, 2)), leading_close + 1)
                ELSE leading_close
    IN  go(LStrip(line_for_braces), 0)

\* parse, the part of the line left after the closing braces: leading_close times
\* the text behind the first } of what is left, stripped
RemainingAfter(stripped, leading_close) ==
    LET RECURSIVE go(_, _)
        go(remaining, n) ==
            IF n = 0 THEN remaining
            ELSE Let(Find(remaining, <<"}">>), LAMBDA pos :
                     go(IF pos > 0 THEN Strip(From(remaining, pos + 1)) ELSE remaining, n - 1))
    IN  go(stripped, leading_close)

\* a frame that keeps nothing of what is appended to it
KeepFrame(node, frames, child) == node

\* stack[-1].children.append(node), the stack given as the number of frames above
\* the root: every frame is the last child of the frame below it
RECURSIVE AppendToFrame(_, _, _)
AppendToFrame(node, frames, child) ==
    IF frames = 0 THEN [node EXCEPT !.children = Append(@, child)]
    ELSE [node EXCEPT !.children[Len(node.children)] = AppendToFrame(@, frames - 1, child)]

\* parse, the text with its line ends made \n:
\* content.replace('\r\n', '\n').replace('\r', '\n')
PdxNormalize(content) ==
    Let(SelectSeq([i \in 1..Len(content) |->
                      IF content[i] = "\r" /\ i < Len(content) /\ content[i + 1] = "\n"
                          THEN "" ELSE content[i]], LAMBDA c : c # ""), LAMBDA crlf :
        ReplaceAllChar(crlf, "\r", "\n"))

\* parse, the body of `for line_num, line in enumerate(lines)` for one line, on
\* the tree root with frames open blocks above the root: [root, frames]
pdx_parse_line(root, frames, line) ==
    Let(Strip(line), LAMBDA stripped :
    Let(IF stripped # <<>> THEN SubSeq(line, 1, Len(line) - Len(stripped)) ELSE <<>>,
        LAMBDA indent :
    Let(CutComment(stripped), LAMBDA line_for_braces :
    Let(LeadingClose(line_for_braces), LAMBDA leading_close :
    Let(IF leading_close < frames THEN frames - leading_close ELSE 0, LAMBDA open :
    Let(RemainingAfter(stripped, leading_close), LAMBDA remaining :
    Let(MatchPdxBlock(remaining), LAMBDA block_match :
    Let(MatchPdxProperty(remaining), LAMBDA prop_match :
    Let(MatchPdxListItem(remaining), LAMBDA list_match :
        IF stripped = <<>>
            THEN [root |-> AppendToFrame(root, frames,
                               PdxNode("empty", <<>>, <<>>, <<>>, <<>>, line, indent)),
                  frames |-> frames]
        ELSE IF remaining = <<>>
            THEN [root |-> root, frames |-> open]
        ELSE IF remaining[1] = "#"
            THEN [root |-> AppendToFrame(root, open,
                               PdxNode("comment", <<>>, remaining, <<>>, <<>>, line, indent)),
                  frames |-> open]
        ELSE IF block_match.ok
            THEN Let(find_comment_pos(block_match.rest), LAMBDA rest_hash :
                 Let(IF rest_hash > 0 THEN Strip(From(block_match.rest, rest_hash)) ELSE <<>>,
                     LAMBDA comment :
                 Let(Strip(IF rest_hash > 0 THEN SubSeq(block_match.rest, 1, rest_hash - 1)
                           ELSE block_match.rest), LAMBDA rest :
                     IF rest # <<>> /\ rest[Len(rest)] = "}"
                         THEN Let(Strip(SubSeq(rest, 1, Len(rest) - 1)), LAMBDA inner :
                              [root |-> AppendToFrame(root, open,
                                           PdxNode("block", block_match.name, <<>>,
                                               IF inner # <<>> THEN parse_inline_content(inner)
                                               ELSE <<>>,
                                               comment, line, indent)),
                               frames |-> open])
                         ELSE [root |-> AppendToFrame(root, open,
                                           PdxNode("block", block_match.name, <<>>, <<>>,
                                               comment, line, indent)),
                               frames |-> open + 1])))
        ELSE IF prop_match.ok
            THEN Let(find_comment_pos(prop_match.value), LAMBDA val_hash :
                 [root |-> AppendToFrame(root, open,
                              PdxNode("property", prop_match.name,
                                  IF val_hash > 0
                                      THEN Strip(SubSeq(prop_match.value, 1, val_hash - 1))
                                      ELSE prop_match.value,
                                  <<>>,
                                  IF val_hash > 0 THEN Strip(From(prop_match.value, val_hash))
                                  ELSE <<>>,
                                  line, indent)),
                  frames |-> open])
        ELSE IF list_match.ok
            THEN Let(Strip(list_match.rest), LAMBDA rest :
                 [root |-> AppendToFrame(root, open,
                              PdxNode("list_item", <<>>, list_match.value, <<>>,
                                  IF rest # <<>> /\ rest[1] = "#" THEN rest ELSE <<>>,
                                  line, indent)),
                  frames |-> open])
        ELSE [root |-> AppendToFrame(root, open,
                           PdxNode("comment", <<>>, remaining, <<>>, <<>>, line, indent)),
              frames |-> open])))))))))

\* PdxNode(node_type=NodeType.ROOT, name="__root__")
PdxRoot ==
    PdxNode("root", <<"_","_","r","o","o","t","_","_">>, <<>>, <<>>, <<>>, <<>>, <<>>)

\* PdxParser.parse: the root node
pdx_parse(content) ==
    Let(Split(PdxNormalize(content), "\n"), LAMBDA lines :
        LET RECURSIVE go(_)
            go(at) == IF at.i > Len(lines) THEN at.root
                      ELSE Let(pdx_parse_line(at.root, at.frames, lines[at.i]), LAMBDA r :
                               go([i |-> at.i + 1, root |-> r.root, frames |-> r.frames]))
        IN  go([i |-> 1, root |-> PdxRoot, frames |-> 0]))

\* the limit of PdxSerializer._can_be_inline
MaxInlineChildren == 8

\* the children a one-line block shows: not the empty lines, not the comments
RealChildren(node) ==
    SelectSeq(node.children, LAMBDA c : c.node_type \notin {"empty", "comment"})

\* PdxSerializer._can_be_inline
RECURSIVE can_be_inline(_)
can_be_inline(node) ==
    Let(RealChildren(node), LAMBDA real_children :
        /\ Len(real_children) <= MaxInlineChildren
        /\ \A k \in 1..Len(real_children) :
              real_children[k].node_type = "block" => can_be_inline(real_children[k]))

\* PdxSerializer._inline_child
RECURSIVE inline_child(_)
inline_child(node) ==
    IF node.node_type = "property" THEN node.name \o <<" ", "=", " ">> \o node.value
    ELSE IF node.node_type = "list_item" THEN node.value
    ELSE IF node.node_type = "block"
        THEN IF node.children = <<>> THEN node.name \o <<" ", "=", " ", "{", " ", "}">>
             ELSE Let(RealChildren(node), LAMBDA real :
                      node.name \o <<" ", "=", " ", "{", " ">>
                      \o Join([k \in 1..Len(real) |-> inline_child(real[k])], <<" ">>)
                      \o <<" ", "}">>)
    ELSE <<>>

\* '\t' * indent_level
Tabs(indent_level) == [k \in 1..indent_level |-> "\t"]

\* PdxSerializer._serialize_node for the nodes parse makes (is_commented False)
RECURSIVE serialize_node(_, _)
serialize_node(node, indent_level) ==
    LET WithComment(line) ==
            IF node.comment # <<>> THEN line \o <<" ">> \o node.comment ELSE line
    IN  IF node.node_type = "empty" THEN <<>>
        ELSE IF node.node_type = "comment"
            THEN IF node.raw_line # <<>> THEN node.raw_line
                 ELSE Tabs(indent_level) \o node.value
        ELSE IF node.node_type = "property"
            THEN WithComment(Tabs(indent_level) \o node.name \o <<" ", "=", " ">> \o node.value)
        ELSE IF node.node_type = "list_item"
            THEN WithComment(Tabs(indent_level) \o node.value)
        ELSE Let(WithComment(Tabs(indent_level) \o node.name \o <<" ", "=", " ", "{">>),
                 LAMBDA header :
                 IF node.children = <<>> THEN header \o <<" ", "}">>
                 ELSE IF can_be_inline(node)
                     THEN Let(RealChildren(node), LAMBDA real :
                              header \o <<" ">>
                              \o Join([k \in 1..Len(real) |-> inline_child(real[k])], <<" ">>)
                              \o <<" ", "}">>)
                 ELSE Join(<<header>>
                           \o [k \in 1..Len(node.children) |->
                                  serialize_node(node.children[k], indent_level + 1)]
                           \o <<Tabs(indent_level) \o <<"}">> >>, <<"\n">>))

\* PdxSerializer.serialize(node) with indent_level 0
serialize(node) ==
    Join([k \in 1..Len(node.children) |-> serialize_node(node.children[k], 0)], <<"\n">>)

\* ---------------------------------------------------------------------------
\* parser.py: ParadoxParser.  Positions are the self.pos of the code, counted
\* from 0; the character at position p is content[p + 1]
\* ---------------------------------------------------------------------------

\* max_iterations = len(self.content) + 1000 of parse
ParseIterationsSlack == 1000

\* max_iterations = len(self.content) + 100 of read_block
BlockIterationsSlack == 100

\* self.content[pos], or "" behind the end of the text
CharAt(content, pos) == IF pos < Len(content) THEN content[pos + 1] ELSE ""

\* self.content[start:end]
Slice(content, start, end) == SubSeq(content, start + 1, end)

\* first position at or after pos whose character is in stop (len(content): none)
ScanUntil(content, pos, stop) ==
    Let({k \in pos..(Len(content) - 1) : content[k + 1] \in stop}, LAMBDA hits :
        IF hits = {} THEN Len(content) ELSE Min(hits))

\* a position that is left where it is
Stay(pos) == pos

\* self.pos += 1 where the position did not move
Advance(pos) == pos + 1

\* skip_whitespace: [pos, line] behind the whitespace
skip_whitespace(content, pos, line) ==
    Let({k \in pos..(Len(content) - 1) : content[k + 1] \notin {" ", "\t", "\r", "\n"}},
        LAMBDA stop :
    Let(IF stop = {} THEN Len(content) ELSE Min(stop), LAMBDA end :
        [pos |-> end, line |-> line + Count(Slice(content, pos, end), "\n")]))

\* read_comment: [pos, text], pos at the end of the line
read_comment(content, pos) ==
    Let(ScanUntil(content, pos, {"\n"}), LAMBDA end :
        [pos |-> end, text |-> Slice(content, pos, end)])

\* parse_entry: skip_whitespace, then `while ... == '#': read_comment,
\* skip_whitespace`: [pos, line]
RECURSIVE SkipComments(_, _, _)
SkipComments(content, pos, line) ==
    Let(skip_whitespace(content, pos, line), LAMBDA s :
        IF CharAt(content, s.pos) = "#"
            THEN SkipComments(content, read_comment(content, s.pos).pos, s.line)
            ELSE s)

\* read_quoted_string at a ": [pos, line, text]; the text gets a closing quote
\* also where the text ends before one
read_quoted_string(content, pos, line) ==
    Let(ScanUntil(content, pos + 1, {"\""}), LAMBDA end :
        [pos |-> IF end < Len(content) THEN end + 1 ELSE end,
         line |-> line + Count(Slice(content, pos + 1, end), "\n"),
         text |-> <<"\"">> \o Slice(content, pos + 1, end) \o <<"\"">>])

\* read_token: [pos, line, text]
read_token(content, pos, line) ==
    IF pos >= Len(content) THEN [pos |-> pos, line |-> line, text |-> <<>>]
    ELSE IF CharAt(content, pos) = "\"" THEN read_quoted_string(content, pos, line)
    ELSE Let(ScanUntil(content, pos, {" ", "\t", "\r", "\n", "=", "{", "}", "#", "<", ">"}),
             LAMBDA end : [pos |-> end, line |-> line, text |-> Slice(content, pos, end)])

\* the values of a tree: a token, True, a block, a list (a key that came twice)
TokenValue(text) ==
    [kind |-> "token", text |-> text, entries |-> <<>>, lines |-> <<>>, comments |-> <<>>]
TrueValue ==
    [kind |-> "true", text |-> <<>>, entries |-> <<>>, lines |-> <<>>, comments |-> <<>>]
BlockValue(entries, lines, comments) ==
    [kind |-> "block", text |-> <<>>, entries |-> entries, lines |-> lines,
     comments |-> comments]
ListValue(items) ==
    [kind |-> "list", text |-> <<>>, entries |-> items, lines |-> <<>>, comments |-> <<>>]

\* parse_entry up to the value: what the entry is ("none": (None, None, 0);
\* "true": a key without operator; "token": key and token; "block": the value is
\* a block, pos at its {), with [key, text, pos, line, line_num]
parse_entry(content, pos, line) ==
    Let(SkipComments(content, pos, line), LAMBDA start :
    Let(read_token(content, start.pos, start.line), LAMBDA key :
    Let(SkipComments(content, key.pos, key.line), LAMBDA at_op :
    Let(IF CharAt(content, at_op.pos + 1) = "=" THEN at_op.pos + 2 ELSE at_op.pos + 1,
        LAMBDA behind_op :
    Let(SkipComments(content, behind_op, at_op.line), LAMBDA at_value :
    Let(read_token(content, at_value.pos, at_value.line), LAMBDA value :
        IF start.pos >= Len(content) \/ key.text = <<>>
            THEN [kind |-> "none", key |-> <<>>, text |-> <<>>, pos |-> key.pos,
                  line |-> key.line, line_num |-> 0]
        ELSE IF CharAt(content, at_op.pos) \notin {"=", "<", ">", "?"}
            THEN [kind |-> "true", key |-> key.text, text |-> <<>>, pos |-> at_op.pos,
                  line |-> at_op.line, line_num |-> start.line]
        ELSE IF CharAt(content, at_value.pos) = "{"
            THEN [kind |-> "block", key |-> key.text, text |-> <<>>, pos |-> at_value.pos,
                  line |-> at_value.line, line_num |-> start.line]
        ELSE [kind |-> "token", key |-> key.text, text |-> value.text, pos |-> value.pos,
              line |-> value.line, line_num |-> start.line]))))))

\* the key __meta__ of every tree
MetaKey == <<"_", "_", "m", "e", "t", "a", "_", "_">>

\* a running loop of parse (kind "parse") or of read_block (kind "block"): its
\* result so far as the entries in the order of their keys and the three
\* collections under __meta__, its iterations, and the entry whose value is the
\* block being read above it
LoopFrame(kind, max_iterations) ==
    [kind |-> kind, entries |-> <<>>, lines |-> <<>>, comments |-> <<>>,
     raw_blocks |-> <<>>, iterations |-> 0, max_iterations |-> max_iterations,
     key |-> <<>>, line_num |-> 0, block_start |-> 0]

\* parse 76-89, read_block 252-259: the entry put into the result of the loop.
\* A key that is there already gets a list of its values
Record(frame, key, value, line_num, raw_text) ==
    Let({i \in 1..Len(frame.entries) : frame.entries[i].key = key}, LAMBDA there :
        IF there # {}
            THEN Let(Min(there), LAMBDA i :
                 [frame EXCEPT !.entries[i].value =
                     IF @.kind = "list" THEN ListValue(Append(@.entries, value))
                     ELSE ListValue(<<@, value>>)])
            ELSE [frame EXCEPT !.entries = Append(@, [key |-> key, value |-> value]),
                               !.lines = Append(@, <<key, line_num>>),
                               !.raw_blocks = IF frame.kind = "parse"
                                                  THEN Append(@, <<key, raw_text>>)
                                                  ELSE @])

\* the state of a call: [rpc, pos, line, stack, tree]
Running(pos, line, stack) ==
    [rpc |-> "running", pos |-> pos, line |-> line, stack |-> stack, tree |-> <<>>]

\* the entry (key, value) reaches the loop on top of the stack: recorded, or, as
\* result['__meta__'] is then the value and not the collections, the line
\* result['__meta__']['lines'][key] = line_num raises
Put(content, pos, line, stack, key, value, line_num) ==
    Let(stack[Len(stack)], LAMBDA frame :
        IF key = MetaKey
            THEN [rpc |-> "raised", pos |-> pos, line |-> line, stack |-> stack,
                  tree |-> <<>>]
            ELSE Running(pos, line,
                     [stack EXCEPT ![Len(stack)] =
                         Record(frame, key, value, line_num,
                                Strip(Slice(content, frame.block_start, pos)))]))

\* the loop on top of the stack is left: parse returns its result, read_block
\* returns its result to the parse_entry of the loop below
Leave(content, pos, line, stack) ==
    Let(stack[Len(stack)], LAMBDA frame :
        IF Len(stack) = 1
            THEN [rpc |-> "returned", pos |-> pos, line |-> line, stack |-> <<>>,
                  tree |-> [entries |-> frame.entries, lines |-> frame.lines,
                            comments |-> frame.comments, raw_blocks |-> frame.raw_blocks]]
            ELSE Let(SubSeq(stack, 1, Len(stack) - 1), LAMBDA below :
                     Put(content, pos, line, below, below[Len(below)].key,
                         BlockValue(frame.entries, frame.lines, frame.comments),
                         below[Len(below)].line_num)))

\* one iteration of `while self.pos < len(self.content)` of parse (43-89) or of
\* read_block (221-259), whichever is on top of the stack
Iteration(content, preserve, pos, line, stack) ==
    Let([stack EXCEPT ![Len(stack)].iterations = @ + 1], LAMBDA counted :
    Let(counted[Len(counted)], LAMBDA frame :
    Let(skip_whitespace(content, pos, line), LAMBDA s :
        IF frame.iterations > frame.max_iterations
            THEN Leave(content, pos, line, counted)
        ELSE IF CharAt(content, s.pos) = "#"
            THEN Let(read_comment(content, s.pos), LAMBDA comment :
                 Let(CharAt(content, comment.pos) = "\n", LAMBDA newline :
                     Running(IF newline THEN comment.pos + 1 ELSE comment.pos,
                             IF newline THEN s.line + 1 ELSE s.line,
                             IF preserve
                                 THEN [counted EXCEPT ![Len(counted)].comments =
                                          Append(@, <<s.line, comment.text>>)]
                                 ELSE counted)))
        ELSE IF s.pos >= Len(content)
            THEN Leave(content, s.pos, s.line, counted)
        ELSE IF frame.kind = "block" /\ CharAt(content, s.pos) = "}"
            THEN Leave(content, s.pos + 1, s.line, counted)
        ELSE IF s.pos = pos
            THEN Running(Advance(s.pos), s.line, counted)
        ELSE Let(parse_entry(content, s.pos, s.line), LAMBDA entry :
             Let([counted EXCEPT ![Len(counted)].key = entry.key,
                                 ![Len(counted)].line_num = entry.line_num,
                                 ![Len(counted)].block_start = s.pos], LAMBDA waiting :
                 IF entry.kind = "none"
                     THEN Running(entry.pos, entry.line, counted)
                 ELSE IF entry.kind = "block"
                     THEN Running(entry.pos + 1, entry.line,
                              Append(waiting,
                                  LoopFrame("block", Len(content) + BlockIterationsSlack)))
                 ELSE Put(content, entry.pos, entry.line, waiting, entry.key,
                          IF entry.kind = "true" THEN TrueValue ELSE TokenValue(entry.text),
                          entry.line_num))))))

\* the next step of a call: an iteration of the loop on top of the stack, or,
\* where its condition self.pos < len(self.content) fails, the end of that loop
ParadoxStep(content, preserve, pos, line, stack) ==
    IF pos < Len(content) THEN Iteration(content, preserve, pos, line, stack)
    ELSE Leave(content, pos, line, stack)

\* ParadoxParser(content, preserve_comments).parse(): the state the call ends in
paradox_parse(content, preserve) ==
    LET RECURSIVE go(_)
        go(st) == IF st.rpc # "running" THEN st
                  ELSE go(ParadoxStep(content, preserve, st.pos, st.line, st.stack))
    IN  go(Running(0, 1, <<LoopFrame("parse", Len(content) + ParseIterationsSlack)>>))

\* ---------------------------------------------------------------------------
\* Bounds and the inputs drawn under them
\* ---------------------------------------------------------------------------

\* the largest number of mods that touch one file
MaxMods == 2

\* the names of the mods, by priority (the last one has the highest)
ModNames == <<"modA", "modB", "modC", "modD">>

\* the file paths a merge is told about: none, one of a recursive context, one of
\* an atomic context
FileNames == { <<>>,
               <<"c","o","m","m","o","n","/","o","n","_","a","c","t","i","o","n","/","x",".","t","x","t">>,
               <<"e","v","e","n","t","s","/","x",".","t","x","t">> }

\* the ways to draw the mods' files from a pool of n texts
Picks(n) == UNION { [1..k -> 1..n] : k \in 1..MaxMods }

\* [(mod_name, content), ...] for the texts picked from a pool
ModContents(pool, picks) ==
    [k \in 1..Len(picks) |-> [mod_name |-> ModNames[k], content |-> pool[picks[k]]]]


\* ---------------------------------------------------------------------------
\* StructuralMerger as a state machine: one call of merge_contents or merge_file
\* on one instance
\* ---------------------------------------------------------------------------

VARIABLES
    pc,              \* where the call stands: "idle", "applying", "returned"
    base_content,    \* merge_contents' argument, after .replace('\r\n', '\n')
    mod_contents,    \* merge_contents' argument, after .replace('\r\n', '\n')
    filename,        \* merge_contents' argument
    base_blocks,     \* the local base_blocks
    all_changes,     \* the local all_changes
    next_change,     \* the entry of all_changes the second loop is at
    result_content,  \* the local result_content
    changes,         \* self.changes
    result,          \* what the call returned
    earlier          \* the calls that returned before on this instance, as their callers hold them

NoResult == [success |-> FALSE, content |-> <<>>, error |-> [kind |-> "not_returned"],
             changes |-> <<>>]

\* StructuralMerger.__init__, before any call
MergerInit ==
    /\ pc = "idle"
    /\ base_content = <<>>
    /\ mod_contents = <<>>
    /\ filename = <<>>
    /\ base_blocks = <<>>
    /\ all_changes = <<>>
    /\ next_change = 1
    /\ result_content = <<>>
    /\ changes = <<>>
    /\ result = NoResult
    /\ earlier = <<>>




\* ---------------------------------------------------------------------------
\* SmartPatchGenerator as a state machine: one call of generate_patch
\* ---------------------------------------------------------------------------

\* the largest number of files _collect_mod_files returns
MaxFiles == 2

VARIABLES
    gpc,        \* where generate_patch stands: "idle", "loop", "returned"
    stats,      \* self.stats
    processed,  \* the iterations of the loop so far: [file, handed, invoked, counted]
    output,     \* the files under output_path: [relative_path, content]
    metafiles   \* _generate_descriptor and _generate_readme have run

\* ---------------------------------------------------------------------------
\* The rule book as a state machine: one call of one of its functions
\* ---------------------------------------------------------------------------

\* the block names the rule book is asked about
BlockNames ==
    {
      <<"x",".","1">>,  \* x.1
      <<"1","0","6","6",".","1",".","1">>,  \* 1066.1.1
      <<"1","0","0">>,  \* 100
      <<"o","n","_","g","a","m","e","_","s","t","a","r","t">>,  \* on_game_start
      <<"o","n","_","a","c","t","i","o","n","s">>,  \* on_actions
      <<"y","e","a","r","l","y","_","p","u","l","s","e">>,  \* yearly_pulse
      <<"m","y","_","e","f","f","e","c","t">>,  \* my_effect
      <<"c","h","a","r","a","c","t","e","r","_","v","i","e","w","_","b","g">>,  \* character_view_bg
      <<"m","y","_","d","e","c","i","s","i","o","n">>,  \* my_decision
      <<"e","f","f","e","c","t">>,  \* effect
      <<"e","v","e","r","y","_","v","a","s","s","a","l">>,  \* every_vassal
      <<"a","n","y","_","c","h","i","l","d">>,  \* any_child
      <<"e","v","e","n","t","s">>,  \* events
      <<"r","a","n","d","o","m","_","e","v","e","n","t","s">>,  \* random_events
      <<"f","i","r","s","t","_","v","a","l","i","d">>,  \* first_valid
      <<"o","n","_","a","c","c","e","p","t">>,  \* on_accept
      <<"s","c","r","i","p","t","e","d","_","e","f","f","e","c","t">>,  \* scripted_effect
      <<"o","p","t","i","o","n">>,  \* option
      <<"t","r","i","g","g","e","r">>,  \* trigger
      <<"o","n","_","s","t","a","r","t">>,  \* on_start
      <<"o","r","d","e","r","e","d","_","v","a","s","s","a","l">>,  \* ordered_vassal
      <<"r","a","n","d","o","m","_","l","i","s","t">> }  \* random_list

\* the file paths the rule book is asked about
FilePaths ==
    {
      <<>>,  \* no path
      <<"e","v","e","n","t","s","/","x",".","t","x","t">>,  \* events/x.txt
      <<"c","o","m","m","o","n","/","d","e","c","i","s","i","o","n","s","/","x",".","t","x","t">>,  \* common/decisions/x.txt
      <<"c","o","m","m","o","n","/","o","n","_","a","c","t","i","o","n","/","x",".","t","x","t">>,  \* common/on_action/x.txt
      <<"c","o","m","m","o","n","/","s","c","r","i","p","t","e","d","_","e","f","f","e","c","t","s","/","x",".","t","x","t">>,  \* common/scripted_effects/x.txt
      <<"c","o","m","m","o","n","\\","s","c","h","e","m","e","s","\\","x",".","t","x","t">>,  \* common\schemes\x.txt
      <<"c","o","m","m","o","n","/","t","r","a","i","t","s","/","x",".","t","x","t">>,  \* common/traits/x.txt
      <<"g","u","i","/","x",".","g","u","i">>,  \* gui/x.gui
      <<"c","o","m","m","o","n","/","o","n","_","a","c","t","i","o","n","s","/","x",".","t","x","t">>,  \* common/on_actions/x.txt
      <<"c","o","m","m","o","n","/","e","v","e","n","t","s","_","o","l","d","/","x",".","t","x","t">>,  \* common/events_old/x.txt
      <<"e","v","e","n","t","s","/","o","n","_","a","c","t","i","o","n","/","x",".","t","x","t">>,  \* events/on_action/x.txt
      <<"e","v","e","n","t","s">> }  \* events

VARIABLES
    called,     \* the call made: [function, block_name, other], other the second argument;
                \* [function, content, filename] for the validator
    returned    \* what the call returned

rule_vars == <<called, returned>>

\* before any call
RulesInit ==
    /\ called = [function |-> "none", block_name |-> <<>>, other |-> <<>>]
    /\ returned = "none"

\* ---------------------------------------------------------------------------
\* PdxParser and PdxSerializer as a state machine: one call of parse, line by
\* line, and one call of serialize on the tree it returned
\* ---------------------------------------------------------------------------

VARIABLES
    ppc,            \* where the call stands: "idle", "lines", "parsed", "serialized"
    pdx_content,    \* parse's argument
    pdx_lines,      \* the local lines
    pdx_line_num,   \* how many lines the loop has been through
    pdx_root,       \* the local root
    pdx_stack,      \* len(stack) - 1: the frames above the root
    serialized      \* what serialize returned

pdx_vars == <<ppc, pdx_content, pdx_lines, pdx_line_num, pdx_root, pdx_stack, serialized>>

\* before parse is called
PdxInit ==
    /\ ppc = "idle"
    /\ pdx_content = <<>>
    /\ pdx_lines = <<>>
    /\ pdx_line_num = 0
    /\ pdx_root = PdxRoot
    /\ pdx_stack = 0
    /\ serialized = <<>>

\* ---------------------------------------------------------------------------
\* ParadoxParser as a state machine: one call of parse on one instance, one
\* iteration of a loop of parse or of read_block at a time
\* ---------------------------------------------------------------------------

VARIABLES
    rpc,               \* where the call stands: "idle", "running", "returned"
    pp_content,        \* self.content
    preserve_comments, \* self.preserve_comments
    pp_pos,            \* self.pos
    pp_line,           \* self.line
    pp_stack,          \* the loops that are running: parse's, and above it one for
                       \* every read_block that has not returned
    pp_tree            \* what parse returned

pp_vars == <<rpc, pp_content, preserve_comments, pp_pos, pp_line, pp_stack, pp_tree>>

\* ParadoxParser.__init__ has not run
ParadoxInit ==
    /\ rpc = "idle"
    /\ pp_content = <<>>
    /\ preserve_comments = TRUE
    /\ pp_pos = 0
    /\ pp_line = 1
    /\ pp_stack = <<>>
    /\ pp_tree = <<>>

parser_vars == <<pdx_vars, pp_vars>>

merger_locals == <<pc, base_content, mod_contents, filename, base_blocks, all_changes,
                   next_change, result_content, result>>

patch_vars == <<gpc, stats, processed, output, metafiles>>

vars == <<pc, base_content, mod_contents, filename, base_blocks, all_changes,
          next_change, result_content, changes, result,
          gpc, stats, processed, output, metafiles, called, returned, earlier,
          ppc, pdx_content, pdx_lines, pdx_line_num, pdx_root, pdx_stack, serialized,
          rpc, pp_content, preserve_comments, pp_pos, pp_line, pp_stack, pp_tree>>

\* SmartPatchGenerator.__init__, before generate_patch is called
PatchInit ==
    /\ gpc = "idle"
    /\ stats = PatchStats
    /\ processed = <<>>
    /\ output = {}
    /\ metafiles = FALSE

Init == MergerInit /\ PatchInit /\ RulesInit /\ PdxInit /\ ParadoxInit


\* ---------------------------------------------------------------------------
\* The steps of a call on the StructuralMerger
\* ---------------------------------------------------------------------------

\* merge_contents up to the second loop: the contents are normalised, the base is
\* parsed, the mods' changes are collected
EnterMergeContents(base, mods, fn) ==
    /\ pc' = "applying"
    /\ base_content' = NormalizeNewlines(base)
    /\ mod_contents' = [k \in 1..Len(mods) |->
                           [mod_name |-> mods[k].mod_name,
                            content |-> NormalizeNewlines(mods[k].content)]]
    /\ filename' = fn
    /\ base_blocks' = parse_top_level_blocks(base_content')
    /\ all_changes' = collect_changes(base_blocks', mod_contents')
    /\ next_change' = 1
    /\ result_content' = base_content'
    /\ result' = NoResult

\* a caller calls merge_contents(base_content, mod_contents, filename)
CallMergeContents ==
    /\ pc = "idle"
    /\ \E c \in 1..Len(Cases), fn \in FileNames :
         \E picks \in Picks(Len(Cases[c].pool)) :
            EnterMergeContents(Cases[c].base, ModContents(Cases[c].pool, picks), fn)
    /\ UNCHANGED changes
    /\ UNCHANGED patch_vars
    /\ UNCHANGED rule_vars
    /\ UNCHANGED earlier
    /\ UNCHANGED parser_vars

\* a caller calls merge_file(base_path, mod_paths): self.changes is emptied, the
\* files are read, and merge_contents is called without a file name; a file that
\* cannot be read ends the call with a failure
CallMergeFile ==
    /\ pc = "idle"
    /\ changes' = <<>>
    /\ \E c \in 1..Len(Cases), readable \in BOOLEAN :
         \E picks \in Picks(Len(Cases[c].pool)) :
            IF readable
                THEN EnterMergeContents(Cases[c].base,
                                        ModContents(Cases[c].pool, picks), <<>>)
                ELSE /\ pc' = "returned"
                     /\ result' = StructuralMergeResult(FALSE, <<>>,
                                      [kind |-> "read_error"], <<>>)
                     /\ UNCHANGED <<base_content, mod_contents, filename, base_blocks,
                                    all_changes, next_change, result_content>>
    /\ UNCHANGED patch_vars
    /\ UNCHANGED rule_vars
    /\ UNCHANGED earlier
    /\ UNCHANGED parser_vars

\* one iteration of `for block_name, changes in all_changes.items()`
ApplyChange ==
    /\ pc = "applying"
    /\ next_change <= Len(all_changes)
    /\ Let(apply_change(result_content, all_changes[next_change], base_blocks, filename),
           LAMBDA r : /\ result_content' = r.content
                      /\ changes' = changes \o r.changes)
    /\ next_change' = next_change + 1
    /\ UNCHANGED <<pc, base_content, mod_contents, filename, base_blocks, all_changes,
                   result>>
    /\ UNCHANGED patch_vars
    /\ UNCHANGED rule_vars
    /\ UNCHANGED earlier
    /\ UNCHANGED parser_vars

\* after the loop: the validator's warnings are appended to self.changes, the
\* braces are checked, the result is returned
Validate ==
    /\ pc = "applying"
    /\ next_change > Len(all_changes)
    /\ changes' = changes \o validation_warnings(result_content, filename)
    /\ result' = finish_merge(result_content, filename, changes)
    /\ pc' = "returned"
    /\ UNCHANGED <<base_content, mod_contents, filename, base_blocks, all_changes,
                   next_change, result_content>>
    /\ UNCHANGED patch_vars
    /\ UNCHANGED rule_vars
    /\ UNCHANGED earlier
    /\ UNCHANGED parser_vars

\* ---------------------------------------------------------------------------
\* The steps of generate_patch
\* ---------------------------------------------------------------------------

\* generate_patch up to the loop: the statistics are reset, the compatibility of
\* the mods is checked (an error ends the call), the output directory is made
\* anew, the files are collected, a StructuralMerger is made
GeneratePatch ==
    /\ gpc = "idle"
    /\ \E compatibility \in {"valid", "warnings", "errors"}, total \in 0..MaxFiles :
          IF compatibility = "errors"
              THEN /\ total = 0
                   /\ stats' = [PatchStats EXCEPT !.errors = <<[file |-> <<>>,
                                    error |-> [kind |-> "incompatible_mod"]]>>]
                   /\ gpc' = "returned"
                   /\ UNCHANGED <<output, changes>>
              ELSE /\ stats' = [PatchStats EXCEPT
                                    !.total_files = total,
                                    !.warnings = IF compatibility = "warnings"
                                                     THEN <<"dependency">> ELSE <<>>]
                   /\ gpc' = "loop"
                   /\ output' = {}
                   /\ changes' = <<>>
    /\ UNCHANGED <<processed, metafiles>>
    /\ UNCHANGED merger_locals
    /\ UNCHANGED rule_vars
    /\ UNCHANGED earlier
    /\ UNCHANGED parser_vars

\* one iteration of the loop over mod_files, for a file not met before
ProcessFile ==
    /\ gpc = "loop"
    /\ Len(processed) < stats.total_files
    /\ \E file \in CollectedFiles :
          /\ \A k \in 1..Len(processed) :
                processed[k].file.relative_path # file.relative_path
          /\ Let(process_file(file, changes), LAMBDA o :
                 /\ processed' = Append(processed,
                        [file |-> file, handed |-> o.handed, invoked |-> o.invoked,
                         counted |-> o.counted])
                 /\ output' = output \cup
                        { [relative_path |-> file.relative_path, content |-> o.written[k]] :
                             k \in 1..Len(o.written) }
                 /\ stats' = [stats EXCEPT ![o.counted] = @ + 1,
                                           !.errors = @ \o o.errors]
                 /\ changes' = o.changes)
    /\ UNCHANGED <<gpc, metafiles>>
    /\ UNCHANGED merger_locals
    /\ UNCHANGED rule_vars
    /\ UNCHANGED earlier
    /\ UNCHANGED parser_vars

\* after the loop: the descriptor and the README are generated, self.stats is
\* returned
FinishPatch ==
    /\ gpc = "loop"
    /\ Len(processed) = stats.total_files
    /\ metafiles' = TRUE
    /\ gpc' = "returned"
    /\ UNCHANGED <<stats, processed, output, changes>>
    /\ UNCHANGED merger_locals
    /\ UNCHANGED rule_vars
    /\ UNCHANGED earlier
    /\ UNCHANGED parser_vars


\* ---------------------------------------------------------------------------
\* The specifications
\* ---------------------------------------------------------------------------

\* one call on a StructuralMerger
Next ==
    \/ CallMergeContents
    \/ CallMergeFile
    \/ ApplyChange
    \/ Validate

Spec == Init /\ [][Next]_vars

\* ---------------------------------------------------------------------------
\* A StructuralMerger that is used again: a second call on the same instance
\* ---------------------------------------------------------------------------

\* what the caller of the call that has returned holds: the arguments, and the
\* StructuralMergeResult, whose changes are the list self.changes itself when the
\* call succeeded (changes=self.changes) and a list of its own otherwise
ReturnedCall ==
    [base_content |-> base_content, mod_contents |-> mod_contents, filename |-> filename,
     result |-> result, shares_changes |-> result.success]

\* the mod files of a second call for the base file of the first: a mod file of
\* the same pool, or the text the first call returned
SecondMods(c) ==
    { <<[mod_name |-> ModNames[1], content |-> Cases[c].pool[k]]>> :
          k \in 1..Len(Cases[c].pool) }
    \cup (IF result.success
              THEN { <<[mod_name |-> ModNames[1], content |-> result.content]>> }
              ELSE {})

\* a caller calls merge_contents on a merger whose first call, for one mod, has
\* returned: self.changes stays as that call left it
CallMergeContentsAgain ==
    /\ pc = "returned"
    /\ earlier = <<>>
    /\ Len(mod_contents) = 1
    /\ earlier' = <<ReturnedCall>>
    /\ \E c \in 1..Len(Cases) :
          /\ NormalizeNewlines(Cases[c].base) = base_content
          /\ \E mods \in SecondMods(c) : EnterMergeContents(Cases[c].base, mods, filename)
    /\ UNCHANGED changes
    /\ UNCHANGED patch_vars
    /\ UNCHANGED rule_vars
    /\ UNCHANGED parser_vars

\* a caller calls merge_file on a merger whose first call, for one mod, has
\* returned: self.changes becomes a new empty list, and the list the first
\* result holds is no longer the merger's
CallMergeFileAgain ==
    /\ pc = "returned"
    /\ earlier = <<>>
    /\ Len(mod_contents) = 1
    /\ earlier' = <<[ReturnedCall EXCEPT !.shares_changes = FALSE,
                                         !.result.changes = IF result.success THEN changes
                                                            ELSE result.changes]>>
    /\ changes' = <<>>
    /\ \E c \in 1..Len(Cases), readable \in BOOLEAN :
          /\ NormalizeNewlines(Cases[c].base) = base_content
          /\ \E mods \in SecondMods(c) :
                IF readable
                    THEN EnterMergeContents(Cases[c].base, mods, <<>>)
                    ELSE /\ pc' = "returned"
                         /\ result' = StructuralMergeResult(FALSE, <<>>,
                                          [kind |-> "read_error"], <<>>)
                         /\ UNCHANGED <<base_content, mod_contents, filename, base_blocks,
                                        all_changes, next_change, result_content>>
    /\ UNCHANGED patch_vars
    /\ UNCHANGED rule_vars
    /\ UNCHANGED parser_vars

\* calls on one StructuralMerger, the second on the instance the first used
ReuseNext ==
    \/ Next
    \/ CallMergeContentsAgain
    \/ CallMergeFileAgain

SpecReuse == Init /\ [][ReuseNext]_vars

\* one call of generate_patch
PatchNext ==
    \/ GeneratePatch
    \/ ProcessFile
    \/ FinishPatch

SpecPatch == Init /\ [][PatchNext]_vars

\* ---------------------------------------------------------------------------
\* The calls of the rule book
\* ---------------------------------------------------------------------------

\* a caller calls get_top_level_strategy(block_name, file_path)
CallGetTopLevelStrategy ==
    /\ called.function = "none"
    /\ \E block_name \in BlockNames, file_path \in FilePaths :
          /\ called' = [function |-> "get_top_level_strategy",
                        block_name |-> block_name, other |-> file_path]
          /\ returned' = get_top_level_strategy(block_name, file_path)
    /\ UNCHANGED <<changes, merger_locals, patch_vars, earlier>>
    /\ UNCHANGED parser_vars

\* a caller calls get_merge_strategy(block_name, parent_name)
CallGetMergeStrategy ==
    /\ called.function = "none"
    /\ \E block_name \in BlockNames, parent_name \in BlockNames :
          /\ called' = [function |-> "get_merge_strategy",
                        block_name |-> block_name, other |-> parent_name]
          /\ returned' = get_merge_strategy(block_name, parent_name)
    /\ UNCHANGED <<changes, merger_locals, patch_vars, earlier>>
    /\ UNCHANGED parser_vars

\* a caller calls is_safe_to_add_child(child_name, parent_name)
CallIsSafeToAddChild ==
    /\ called.function = "none"
    /\ \E child_name \in BlockNames, parent_name \in BlockNames :
          /\ called' = [function |-> "is_safe_to_add_child",
                        block_name |-> child_name, other |-> parent_name]
          /\ returned' = IF is_safe_to_add_child(child_name, parent_name)
                             THEN "True" ELSE "False"
    /\ UNCHANGED <<changes, merger_locals, patch_vars, earlier>>
    /\ UNCHANGED parser_vars

\* texts for the validator: an event opened twice at the start of a line, next to
\* an ordinary block opened twice
Duplicated_col0 ==
    <<"x",".","1"," ","="," ","{"," ","a"," ","}","\n","x",".","1"," ","="," ","{"," ","b"," ","}","\n","f","o","o"," ","="," ","{"," ","c"," ","}","\n","f","o","o"," ","="," ","{"," ","d"," ","}">>

\* an event opened twice at top level by indented lines
Duplicated_indented ==
    <<"\t","x",".","1"," ","="," ","{"," ","a"," ","}","\n","\t","x",".","1"," ","="," ","{"," ","b"," ","}">>

\* an event opened once inside another event, the line not indented, and once at
\* top level
Duplicated_nested ==
    <<"x",".","1"," ","="," ","{","\n","x",".","2"," ","="," ","{","\n","}","\n","}","\n","x",".","2"," ","="," ","{"," ","a"," ","}">>

\* an event with more than 20 options, twice
Duplicated_warned == Options_base \o <<"\n">> \o Options_base

\* the contents handed to the validator: the texts of the merges and those above
ValidatedContents ==
    { Cases[c].pool[k] : c \in 1..Len(Cases), k \in 1..3 }
    \cup { Duplicated_col0, Duplicated_indented, Duplicated_nested, Duplicated_warned }

\* a caller calls StructureValidator().validate(content, filename)
CallValidate ==
    /\ called.function = "none"
    /\ \E content \in ValidatedContents, file \in FileNames :
          /\ called' = [function |-> "validate", content |-> content, filename |-> file]
          /\ returned' = validate(content, file)
    /\ UNCHANGED <<changes, merger_locals, patch_vars, earlier>>
    /\ UNCHANGED parser_vars

\* one call of the rule book
RulesNext ==
    \/ CallGetTopLevelStrategy
    \/ CallGetMergeStrategy
    \/ CallIsSafeToAddChild
    \/ CallValidate

SpecRules == Init /\ [][RulesNext]_vars

\* ---------------------------------------------------------------------------
\* The texts PdxParser.parse is run on
\* ---------------------------------------------------------------------------

Pdx_multiline == <<"a"," ","="," ","{","\n","\t","b"," ","="," ","1","\n","}","\n">>
Pdx_oneline == <<"a"," ","="," ","{"," ","b"," ","="," ","1"," ","}","\n">>
Pdx_nested_oneline == <<"a"," ","="," ","{"," ","b"," ","="," ","{"," ","c"," ","}"," ","}">>
Pdx_close_after_content == <<"a"," ","="," ","{","\n","\t","b"," ","="," ","1"," ","}","\n","c"," ","="," ","2">>
Pdx_close_after_block == <<"a"," ","="," ","{","\n","\t","b"," ","="," ","{","\n","\t","\t","c"," ","="," ","1","\n","\t","}"," ","}","\n","d"," ","="," ","2">>
Pdx_two_opened == <<"a"," ","="," ","{"," ","b"," ","="," ","{","\n","\t","c","\n","}"," ","}","\n","d">>
Pdx_stray_close == <<"x"," ","="," ","1"," ","}">>
Pdx_stray_open == <<"{">>
Pdx_excess_close == <<"}","}","\n","x"," ","="," ","1","\n","}">>
Pdx_unrecognized == <<"}","\n","@","x"," ","="," ","1","\n","\"","q","u","o","t","e","d","\"","\n","="," ","1","\n","\t","y"," ","1">>
Pdx_commented == <<"a"," ","="," ","{","\n","\t","#"," ","n","o","t","e","\n","\n","\t","b"," ","="," ","1","\n","}">>
Pdx_header_comment == <<"a"," ","="," ","{"," "," ","#"," ","c","\n","\t","b","\n","}">>
Pdx_operator == <<"a"," ",">","="," ","1">>
Pdx_spaced == <<" "," ","a","=","1"," "," ","\n"," "," "," "," ","b">>
Pdx_nine == <<"a"," ","="," ","{","\n","\t","b","1","\n","\t","b","2","\n","\t","b","3","\n","\t","b","4","\n","\t","b","5","\n","\t","b","6","\n","\t","b","7","\n","\t","b","8","\n","\t","b","9","\n","}">>
Pdx_nine_spaced == <<"a"," ","="," ","{","\n"," "," ","b","1","\n"," "," ","b","2","\n"," "," ","b","3","\n"," "," ","b","4","\n"," "," ","b","5","\n"," "," ","b","6","\n"," "," ","b","7","\n"," "," ","b","8","\n"," "," ","#"," ","c","\n","\n"," "," ","b","9"," ","="," ","x","\n","}">>
Pdx_crlf == <<"a"," ","="," ","1","\r","\n","b"," ","="," ","{"," ","c"," ","}","\r","\n">>
Pdx_comments_only == <<"#"," ","c","\n","\n","#"," ","d">>
Pdx_quoted_hash == <<"a"," ","="," ","\"","x"," ","#"," ","y","\""," ","#"," ","z">>
Pdx_quoted_brace == <<"a"," ","="," ","{","\n","\t","b"," ","="," ","\"","}","\"","\n","}">>
Pdx_empty_block == <<"a"," ","="," ","{","\n","}">>
Pdx_properties == <<"a"," ","="," ","1","\n","b"," ","="," ","2">>
Pdx_empty == <<>>

PdxTexts == {
    Pdx_multiline, Pdx_oneline, Pdx_nested_oneline, Pdx_close_after_content,
    Pdx_close_after_block, Pdx_two_opened, Pdx_stray_close, Pdx_stray_open,
    Pdx_excess_close, Pdx_unrecognized, Pdx_commented, Pdx_header_comment,
    Pdx_operator, Pdx_spaced, Pdx_nine, Pdx_nine_spaced, Pdx_crlf, Pdx_comments_only,
    Pdx_quoted_hash, Pdx_quoted_brace, Pdx_empty_block, Pdx_properties, Pdx_empty }

\* ---------------------------------------------------------------------------
\* The steps of PdxParser.parse and of PdxSerializer.serialize
\* ---------------------------------------------------------------------------

\* parse(content) up to the loop: the line ends made \n, the text split, the root
\* made and put on the stack
CallParse ==
    \E content \in PdxTexts :
        /\ ppc = "idle"
        /\ ppc' = "lines"
        /\ pdx_content' = content
        /\ pdx_lines' = Split(PdxNormalize(content), "\n")
        /\ pdx_line_num' = 0
        /\ pdx_root' = PdxRoot
        /\ pdx_stack' = 0
        /\ UNCHANGED serialized
        /\ UNCHANGED <<changes, merger_locals, patch_vars, rule_vars, earlier>>
        /\ UNCHANGED pp_vars

\* one iteration of `for line_num, line in enumerate(lines)`
ParseLine ==
    /\ ppc = "lines"
    /\ pdx_line_num < Len(pdx_lines)
    /\ Let(pdx_parse_line(pdx_root, pdx_stack, pdx_lines[pdx_line_num + 1]), LAMBDA after :
           /\ pdx_root' = after.root
           /\ pdx_stack' = after.frames)
    /\ pdx_line_num' = pdx_line_num + 1
    /\ UNCHANGED <<ppc, pdx_content, pdx_lines, serialized>>
    /\ UNCHANGED <<changes, merger_locals, patch_vars, rule_vars, earlier>>
    /\ UNCHANGED pp_vars

\* `return root` behind the loop
ReturnRoot ==
    /\ ppc = "lines"
    /\ pdx_line_num = Len(pdx_lines)
    /\ ppc' = "parsed"
    /\ UNCHANGED <<pdx_content, pdx_lines, pdx_line_num, pdx_root, pdx_stack, serialized>>
    /\ UNCHANGED <<changes, merger_locals, patch_vars, rule_vars, earlier>>
    /\ UNCHANGED pp_vars

\* PdxSerializer().serialize(root) on the tree parse returned
CallSerialize ==
    /\ ppc = "parsed"
    /\ ppc' = "serialized"
    /\ serialized' = serialize(pdx_root)
    /\ UNCHANGED <<pdx_content, pdx_lines, pdx_line_num, pdx_root, pdx_stack>>
    /\ UNCHANGED <<changes, merger_locals, patch_vars, rule_vars, earlier>>
    /\ UNCHANGED pp_vars

PdxNext ==
    \/ CallParse
    \/ ParseLine
    \/ ReturnRoot
    \/ CallSerialize

SpecPdx == Init /\ [][PdxNext]_vars

\* ---------------------------------------------------------------------------
\* The texts ParadoxParser.parse is run on
\* ---------------------------------------------------------------------------

\* what a text starts with before its first entry: nothing, whitespace, a comment
\* line, a comment line and whitespace
Start_offset0 == <<>>
Start_space == <<" ">>
Start_newline == <<"\n">>
Start_comment == <<"#"," ","c","\n">>
Start_comment_tab == <<"#"," ","c","\n","\t">>

Starts == { Start_offset0, Start_space, Start_newline, Start_comment, Start_comment_tab }

\* top-level entries, with the keys and values they are written with
Entry_token ==
    [text |-> <<"k","e","y"," ","="," ","v","a","l","u","e">>,
     entries |-> << [key |-> <<"k","e","y">>, value |-> TokenValue(<<"v","a","l","u","e">>)] >>]
Entry_block ==
    [text |-> <<"k"," ","="," ","{"," ","a"," ","="," ","1"," ","}">>,
     entries |-> << [key |-> <<"k">>,
                     value |-> BlockValue(<< [key |-> <<"a">>, value |-> TokenValue(<<"1">>)] >>,
                                          <<>>, <<>>)] >>]
Entry_two ==
    [text |-> <<"a"," ","="," ","1","\n","b"," ","="," ","2">>,
     entries |-> << [key |-> <<"a">>, value |-> TokenValue(<<"1">>)],
                    [key |-> <<"b">>, value |-> TokenValue(<<"2">>)] >>]

EntryTexts == { Entry_token, Entry_block, Entry_two }

PP_unterminated_block == <<" ","a"," ","="," ","{"," ","b"," ","="," ","{">>
PP_unterminated_quote == <<" ","a"," ","="," ","\"","x","\n">>
PP_stray == <<" ","="," ","}"," ","{"," ","a"," ","?"," ","<">>
PP_duplicate == <<" ","a"," ","="," ","1"," ","a"," ","="," ","2"," ","a"," ","="," ","3">>
PP_comments == <<" ","a"," ","="," ","{"," ","#"," ","c","\n"," ","b"," ","#"," ","d","\n","}","\n","#"," ","e">>
PP_meta == <<" ","_","_","m","e","t","a","_","_"," ","="," ","1">>
PP_nested == <<" ","a"," ","="," ","{"," ","b"," ","="," ","{"," ","c"," ","}"," ","}"," ","d">>
PP_adjacent == <<" ","a","=","{","b","=","1","}","c","=","2">>
PP_blank == <<" ","\n">>

ParadoxTexts ==
    { start \o entry.text : start \in Starts, entry \in EntryTexts }
    \cup { PP_unterminated_block, PP_unterminated_quote, PP_stray, PP_duplicate,
           PP_comments, PP_meta, PP_nested, PP_adjacent, PP_blank, <<>> }

\* ---------------------------------------------------------------------------
\* The steps of ParadoxParser.parse
\* ---------------------------------------------------------------------------

\* the state a step ends in, put into the variables
ParadoxBecomes(st) ==
    /\ rpc' = st.rpc
    /\ pp_pos' = st.pos
    /\ pp_line' = st.line
    /\ pp_stack' = st.stack
    /\ pp_tree' = st.tree
    /\ UNCHANGED <<pp_content, preserve_comments>>
    /\ UNCHANGED <<changes, merger_locals, patch_vars, rule_vars, earlier>>
    /\ UNCHANGED pdx_vars

\* ParadoxParser(content, preserve_comments).parse() up to its loop
CallParadoxParse ==
    \E content \in ParadoxTexts, preserve \in BOOLEAN :
        /\ rpc = "idle"
        /\ rpc' = "running"
        /\ pp_content' = content
        /\ preserve_comments' = preserve
        /\ pp_pos' = 0
        /\ pp_line' = 1
        /\ pp_stack' = <<LoopFrame("parse", Len(content) + ParseIterationsSlack)>>
        /\ UNCHANGED pp_tree
        /\ UNCHANGED <<changes, merger_locals, patch_vars, rule_vars, earlier>>
        /\ UNCHANGED pdx_vars

\* one iteration of the loop of parse, up to the call of read_block where the
\* value of its entry is a block
ParseIteration ==
    /\ rpc = "running"
    /\ Len(pp_stack) = 1
    /\ pp_pos < Len(pp_content)
    /\ ParadoxBecomes(Iteration(pp_content, preserve_comments, pp_pos, pp_line, pp_stack))

\* one iteration of the loop of the read_block that runs, up to the call of the
\* next read_block where the value of its entry is a block
BlockIteration ==
    /\ rpc = "running"
    /\ Len(pp_stack) > 1
    /\ pp_pos < Len(pp_content)
    /\ ParadoxBecomes(Iteration(pp_content, preserve_comments, pp_pos, pp_line, pp_stack))

\* the condition of the loop that runs fails: read_block returns to the
\* iteration that called it, parse returns the tree
LoopEnds ==
    /\ rpc = "running"
    /\ pp_pos >= Len(pp_content)
    /\ ParadoxBecomes(Leave(pp_content, pp_pos, pp_line, pp_stack))

ParadoxNext ==
    \/ CallParadoxParse
    \/ ParseIteration
    \/ BlockIteration
    \/ LoopEnds

SpecParadox == Init /\ [][ParadoxNext]_vars

\* ---------------------------------------------------------------------------
\* Properties of a call on the StructuralMerger (specification Spec)
\* ---------------------------------------------------------------------------

\* the call has returned and its files could be read
MergeReturned == pc = "returned" /\ result.error.kind # "read_error"

\* the mods, in priority order, whose top-level block of the name of base_block
\* differs from it in normalized inner content: [mod_name, block]
ChangingBlocks(base_block) ==
    Let([k \in 1..Len(mod_contents) |->
            [mod_name |-> mod_contents[k].mod_name,
             blocks |-> DictGet(parse_top_level_blocks(mod_contents[k].content),
                                base_block.name)]], LAMBDA found :
    Let(SelectSeq(found, LAMBDA f :
            /\ f.blocks # <<>>
            /\ normalize_content(f.blocks[1].inner_text)
                  # normalize_content(base_block.inner_text)), LAMBDA kept :
        [k \in 1..Len(kept) |-> [mod_name |-> kept[k].mod_name, block |-> kept[k].blocks[1]]]))

\* the top-level block of this name in the spliced text: <<block>> or <<>>
MergedBlock(name) == DictGet(parse_top_level_blocks(result_content), name)

\* the child of this name at this index in the merged block of this name: <<child>> or <<>>
MergedChild(block_name, child_name, idx) ==
    Let(MergedBlock(block_name), LAMBDA merged :
        IF merged = <<>> THEN <<>>
        ELSE Let(get_all_children(merged[1], child_name), LAMBDA same_name :
                 IF idx < Len(same_name) THEN <<same_name[idx + 1]>> ELSE <<>>))

\* the base blocks some mod changes and merge_contents replaces atomically
AtomicBlocks ==
    { b \in 1..Len(base_blocks) :
        /\ get_top_level_strategy(base_blocks[b].name, filename) = "ATOMIC_ACCUMULATE"
        /\ ChangingBlocks(base_blocks[b]) # <<>> }

\* the base blocks some mod changes and merge_contents merges child by child
DeepMergedContainers ==
    { b \in 1..Len(base_blocks) :
        /\ get_top_level_strategy(base_blocks[b].name, filename) = "MERGEABLE_CONTAINER"
        /\ get_merge_strategy(base_blocks[b].name, <<>>) # "REPLACE_WHOLE"
        /\ ~is_gui_background_container(base_blocks[b].name)
        /\ ChangingBlocks(base_blocks[b]) # <<>> }

\* C1 - atomic last-wins: when two or more mods change the same top-level
\* AtomicAccumulate block of base, the block of the merged text is verbatim the
\* full text of the block of the last of these mods, and the text of base's block
\* is no longer in the merged text
AtomicLastWins ==
    (MergeReturned /\ result.success) =>
        \A b \in AtomicBlocks :
            Let(ChangingBlocks(base_blocks[b]), LAMBDA changing :
                Len(changing) >= 2 =>
                    /\ MergedBlock(base_blocks[b].name) # <<>>
                    /\ MergedBlock(base_blocks[b].name)[1].full_text
                          = changing[Len(changing)].block.full_text
                    /\ Contains(result.content, changing[Len(changing)].block.full_text)
                    /\ ~Contains(result.content, base_blocks[b].full_text))

\* the items of the sequences of a sequence, one after the other
Flatten(seqs) ==
    LET RECURSIVE go(_, _)
        go(k, acc) == IF k > Len(seqs) THEN acc ELSE go(k + 1, acc \o seqs[k])
    IN  go(1, <<>>)

\* the lists the changing mods have at the position (child_name, idx)
ModListsAt(changing, child_name, idx) ==
    Let(SelectSeq(changing, LAMBDA m : idx < Len(get_all_children(m.block, child_name))),
        LAMBDA has :
        [k \in 1..Len(has) |-> get_all_children(has[k].block, child_name)[idx + 1].list_items])

\* the base's items in base order, then the items of the mods' lists that are not
\* yet in the list, in first-seen order, each once
AccumulatedList(base_items, mod_lists) ==
    Let(Flatten(mod_lists), LAMBDA offered :
    Let(SortedSeq({k \in 1..Len(offered) :
            /\ \A j \in 1..Len(base_items) : base_items[j] # offered[k]
            /\ \A j \in 1..(k - 1) : offered[j] # offered[k]}), LAMBDA fresh :
        base_items \o [k \in 1..Len(fresh) |-> offered[fresh[k]]]))

\* the AccumulateList children of a base block, as slots [name, idx, child]
ListSlots(base_block) ==
    SelectSeq(ChildSlots(base_block),
        LAMBDA s : get_merge_strategy(s.name, base_block.name) = "ACCUMULATE_LIST")

\* the words of the text hold these words one after the other
HasWords(content, words) ==
    Let(SplitWs(content), LAMBDA all :
        \E p \in 1..(Len(all) - Len(words) + 1) : SubSeq(all, p, p + Len(words) - 1) = words)

\* the merge of scenario S1 as a mergeable container: the base, mod A and mod B of
\* the specification
IsScenarioS1 ==
    /\ MergeReturned
    /\ base_content = S1_base
    /\ [k \in 1..Len(mod_contents) |-> mod_contents[k].content] = <<S1_modA, S1_modB>>
    /\ get_top_level_strategy(base_blocks[1].name, filename) = "MERGEABLE_CONTAINER"

\* C2 - accumulating lists: in a deep-merged container every AccumulateList child
\* of base, a list without items included, holds after the merge the base's items
\* in base order followed by the new items of the mods' lists at the same position
\* in first-seen order, each once; for scenario S1 the merged list is
\* { vanilla_init modA_init modB_init }
AccumulatingLists ==
    /\ (MergeReturned /\ result.success) =>
          \A b \in DeepMergedContainers :
              Let(ListSlots(base_blocks[b]), LAMBDA slots :
                  \A s \in 1..Len(slots) :
                      Let(MergedChild(base_blocks[b].name, slots[s].name, slots[s].idx),
                          LAMBDA merged :
                          /\ merged # <<>>
                          /\ merged[1].list_items
                                = AccumulatedList(slots[s].child.list_items,
                                      ModListsAt(ChangingBlocks(base_blocks[b]),
                                                 slots[s].name, slots[s].idx))))
    /\ IsScenarioS1 =>
          /\ result.success
          /\ HasWords(result.content,
                 << <<"o","n","_","a","c","t","i","o","n","s">>, <<"=">>, <<"{">>,
                    <<"v","a","n","i","l","l","a","_","i","n","i","t">>,
                    <<"m","o","d","A","_","i","n","i","t">>,
                    <<"m","o","d","B","_","i","n","i","t">>, <<"}">> >>)

\* the number of unescaped double quotes of the line before position i
UnescapedQuotesBefore(line, i) ==
    Cardinality({q \in 1..(i - 1) : line[q] = "\"" /\ (q = 1 \/ line[q - 1] # "\\")})

\* position i of the line is in a comment: at or after a # that no quoted string holds
InComment(line, i) ==
    \E h \in 1..i : line[h] = "#" /\ UnescapedQuotesBefore(line, h) % 2 = 0

\* the number of times the brace stands in the text outside comments
BracesOutsideComments(content, brace) ==
    Let(Split(content, "\n"), LAMBDA lines :
        LET RECURSIVE go(_, _)
            go(k, n) ==
                IF k > Len(lines) THEN n
                ELSE go(k + 1, n + Cardinality({i \in 1..Len(lines[k]) :
                                     lines[k][i] = brace /\ ~InComment(lines[k], i)}))
        IN  go(1, 0))

\* as many { as } outside comments
Balanced(content) ==
    BracesOutsideComments(content, "{") = BracesOutsideComments(content, "}")

\* C3 - brace balance: the content of a successful result has as many { as }
\* outside # comments, a # in a quoted string starting none; a spliced text that is
\* not balanced is returned as a failure with an error and without content
BraceBalance ==
    /\ (pc = "returned" /\ result.success) => Balanced(result.content)
    /\ (MergeReturned /\ ~Balanced(result_content)) =>
          /\ ~result.success
          /\ result.error.kind = "unbalanced_braces"
          /\ result.content = <<>>

\* C3, its case: a successful result whose content holds a # inside a quoted
\* string on a line with a brace
BraceBalanceCase ==
    /\ pc = "returned" /\ result.success
    /\ \E line \in { Split(result.content, "\n")[k] : k \in 1..Len(Split(result.content, "\n")) } :
          /\ \E h \in 1..Len(line) : line[h] = "#" /\ UnescapedQuotesBefore(line, h) % 2 = 1
          /\ \E i \in 1..Len(line) : line[i] \in {"{", "}"}

\* the parent's name in the path parent.child[idx] of a change whose content is
\* the child's name
ParentOfPath(change) ==
    SubSeq(change.path, 1, RFindChar(change.path, "[") - Len(change.content) - 2)

\* the children the changing mods bring to a base block that the block does not
\* have, a new name or an index past the base's count for the name, and that the
\* rule book does not allow under this parent: [mod_name, name, idx, child]
UnsafeNewChildren(base_block) ==
    SelectSeq(ModChildSlots(ChangingBlocks(base_block)), LAMBDA s :
        /\ s.idx >= Len(get_all_children(base_block, s.name))
        /\ ~is_safe_to_add_child(s.name, base_block.name))

AccumulationMonotone ==
    (MergeReturned /\ result.success) =>
        \A b \in DeepMergedContainers :
            Let(ListSlots(base_blocks[b]), LAMBDA slots :
                \A s \in 1..Len(slots) :
                    Let(MergedChild(base_blocks[b].name, slots[s].name, slots[s].idx),
                        LAMBDA merged :
                        /\ merged # <<>>
                        /\ \A i \in 1..Len(slots[s].child.list_items) :
                              InSeq(slots[s].child.list_items[i], merged[1].list_items)))

\* the ReplaceWhole children of a base block, as slots [name, idx, child]
ReplaceWholeSlots(base_block) ==
    SelectSeq(ChildSlots(base_block),
        LAMBDA s : get_merge_strategy(s.name, base_block.name) = "REPLACE_WHOLE")

\* the text a ReplaceWhole child of base is to have after the merge: that of the
\* same-position child of the last changing mod whose normalized content differs
\* from the base child's, the base child's own when there is none
ReplacedChildText(changing, slot) ==
    Let(SelectSeq(changing, LAMBDA m :
            /\ slot.idx < Len(get_all_children(m.block, slot.name))
            /\ normalize_content(get_all_children(m.block, slot.name)[slot.idx + 1].inner_text)
                  # normalize_content(slot.child.inner_text)), LAMBDA differing :
        IF differing = <<>> THEN slot.child.full_text
        ELSE get_all_children(differing[Len(differing)].block, slot.name)[slot.idx + 1].full_text)

\* the merge of scenario S3 as a mergeable container: the base, mod A and mod B of
\* the specification, on one line or with one child per line
IsScenarioS3 ==
    /\ MergeReturned
    /\ \/ /\ base_content = S3_base
          /\ [k \in 1..Len(mod_contents) |-> mod_contents[k].content] = <<S3_modA, S3_modB>>
       \/ /\ base_content = S3m_base
          /\ [k \in 1..Len(mod_contents) |-> mod_contents[k].content] = <<S3m_modA, S3m_modB>>
    /\ get_top_level_strategy(base_blocks[1].name, filename) = "MERGEABLE_CONTAINER"

\* C6 - ReplaceWhole children: in a deep-merged container a ReplaceWhole child of
\* base is replaced by the same-position child of the last mod that changed it and
\* stays as in base when none did, while the sibling lists are accumulated from
\* all mods; for scenario S3 the result has mod B's effect and
\* events = { base.1 modA.1 modB.1 }
ReplaceWholeChildren ==
    /\ (MergeReturned /\ result.success) =>
          \A b \in DeepMergedContainers :
              Let(ReplaceWholeSlots(base_blocks[b]), LAMBDA slots :
                  \A s \in 1..Len(slots) :
                      Let(MergedChild(base_blocks[b].name, slots[s].name, slots[s].idx),
                          LAMBDA merged :
                          /\ merged # <<>>
                          /\ merged[1].full_text
                                = ReplacedChildText(ChangingBlocks(base_blocks[b]), slots[s])))
    /\ IsScenarioS3 =>
          /\ result.success
          /\ HasWords(result.content,
                 << <<"e","f","f","e","c","t">>, <<"=">>, <<"{">>,
                    <<"s","e","t","_","c","u","l","t","u","r","e">>, <<"=">>, <<"b","a","r">>,
                    <<"}">> >>)
          /\ HasWords(result.content,
                 << <<"e","v","e","n","t","s">>, <<"=">>, <<"{">>,
                    <<"b","a","s","e",".","1">>, <<"m","o","d","A",".","1">>,
                    <<"m","o","d","B",".","1">>, <<"}">> >>)

\* ---------------------------------------------------------------------------
\* Properties of a call of generate_patch (specification SpecPatch)
\* ---------------------------------------------------------------------------

\* what is under output_path at this relative path
WrittenAt(relative_path) ==
    { o.content : o \in { w \in output : w.relative_path = relative_path } }

\* the file of the last mod handed to the merger in an iteration of the loop
LastChangedFile(iteration) ==
    Let(iteration.handed[Len(iteration.handed)], LAMBDA last_mod :
        SelectSeq(iteration.file.sources, LAMBDA s : s.mod_name = last_mod)[1].file)

\* the iterations of the loop whose merge failed
FailedIterations == { k \in 1..Len(processed) : processed[k].counted = "failed_files" }

\* C7 - failure fallback: for a mergeable file whose merge fails, the version of
\* the last changed mod is written verbatim at the file's path in the output
\* directory, failed_files is incremented and an error naming the file is recorded
FailureFallback ==
    /\ \A k \in FailedIterations :
          /\ WrittenAt(processed[k].file.relative_path) # {}
          /\ LastChangedFile(processed[k]).readable =>
                WrittenAt(processed[k].file.relative_path)
                   = { LastChangedFile(processed[k]).content }
          /\ \E e \in 1..Len(stats.errors) :
                stats.errors[e].file = processed[k].file.relative_path
    /\ gpc # "idle" => stats.failed_files = Cardinality(FailedIterations)

\* C8 - a failing merge never aborts the run: whatever was processed before it,
\* every file has the outcome it has when it is processed alone by a new merger;
\* unless the mods are incompatible, generate_patch returns only after every
\* collected file was processed and the descriptor and the README were
\* generated, with one error and one count for each failed file
FailingMergeNeverAborts ==
    /\ \A k \in 1..Len(processed) :
          Let(process_file(processed[k].file, <<>>), LAMBDA alone :
              /\ processed[k].handed = alone.handed
              /\ processed[k].invoked = alone.invoked
              /\ processed[k].counted = alone.counted
              /\ WrittenAt(processed[k].file.relative_path)
                    = { alone.written[i] : i \in 1..Len(alone.written) })
    /\ (gpc = "returned" /\ \A e \in 1..Len(stats.errors) :
                               stats.errors[e].error.kind # "incompatible_mod") =>
          /\ Len(processed) = stats.total_files
          /\ metafiles
          /\ stats.failed_files = Cardinality(FailedIterations)
          /\ Len(stats.errors) = Cardinality(FailedIterations)
          /\ stats.merged_files + stats.copied_files + stats.skipped_files
                + stats.failed_files = stats.total_files

\* C8, its case: generate_patch has returned from a run in which the merge of the
\* first file failed and the file after it was merged and written
FailingMergeNeverAbortsCase ==
    /\ gpc = "returned" /\ metafiles
    /\ Len(processed) >= 2
    /\ processed[1].counted = "failed_files"
    /\ processed[2].counted = "merged_files"
    /\ WrittenAt(processed[2].file.relative_path) # {}

\* the source's file can be compared with the base's and is equal to it under the
\* normalization of the orchestrator
EqualToBase(file, source) ==
    /\ file.base.readable /\ source.file.readable
    /\ SmartPatchGenerator_normalize_content(source.file.content)
          = SmartPatchGenerator_normalize_content(file.base.content)

\* C9 - unchanged mods are filtered: for a file that exists in base, a mod whose
\* version equals the base's under normalization is not handed to the merger;
\* when every mod's version equals the base's, the merger is not invoked, nothing
\* is written for the file and the file is counted as skipped
UnchangedModsFiltered ==
    \A k \in 1..Len(processed) :
        Let(processed[k].file, LAMBDA file :
            file.base.exists =>
                /\ \A s \in 1..Len(file.sources) :
                      EqualToBase(file, file.sources[s]) =>
                          ~InSeq(file.sources[s].mod_name, processed[k].handed)
                /\ (\A s \in 1..Len(file.sources) : EqualToBase(file, file.sources[s])) =>
                      /\ ~processed[k].invoked
                      /\ WrittenAt(file.relative_path) = {}
                      /\ processed[k].counted = "skipped_files")

\* C9, its case: a run that processed a file that every mod left as in base, and a
\* file that one mod left as in base and another changed
UnchangedModsFilteredCase ==
    /\ \E k \in 1..Len(processed) :
          Let(processed[k].file, LAMBDA file :
              /\ file.base.exists /\ file.sources # <<>>
              /\ \A s \in 1..Len(file.sources) : EqualToBase(file, file.sources[s]))
    /\ \E k \in 1..Len(processed) :
          Let(processed[k].file, LAMBDA file :
              /\ file.base.exists
              /\ \E s \in 1..Len(file.sources) : EqualToBase(file, file.sources[s])
              /\ \E s \in 1..Len(file.sources) : ~EqualToBase(file, file.sources[s])
              /\ processed[k].invoked)

\* the text without the # comments that start outside double-quoted strings and
\* without any whitespace
WithoutCommentsAndSpace(content) ==
    Let(Split(content, "\n"), LAMBDA lines :
        Flatten([k \in 1..Len(lines) |->
            Let(lines[k], LAMBDA line :
            Let(SortedSeq({i \in 1..Len(line) :
                    ~InComment(line, i) /\ line[i] \notin {" ", "\t", "\r"}}), LAMBDA keep :
                [j \in 1..Len(keep) |-> line[keep[j]]]))]))

\* C10 - the filter is quote-aware: a mod's file counts as equal to the base's
\* exactly when the two texts coincide once the # comments that start outside
\* quoted strings and all whitespace are removed, so that a mod that differs from
\* base only after a # inside a quoted string is handed to the merger
FilterQuoteAware ==
    \A k \in 1..Len(processed) :
        Let(processed[k].file, LAMBDA file :
            (file.base.exists /\ file.base.readable) =>
                \A s \in 1..Len(file.sources) :
                    file.sources[s].file.readable =>
                        ( InSeq(file.sources[s].mod_name, processed[k].handed)
                            <=> ( WithoutCommentsAndSpace(file.sources[s].file.content)
                                    # WithoutCommentsAndSpace(file.base.content) ) ))

\* ---------------------------------------------------------------------------
\* Properties of the file path of a merge (specification SpecPatch)
\* ---------------------------------------------------------------------------

\* the sources of an iteration that were handed to the merger, as merge_contents
\* takes them: [(mod_name, content), ...]
HandedContents(iteration) ==
    Let(SelectSeq(iteration.file.sources,
            LAMBDA s : InSeq(s.mod_name, iteration.handed)), LAMBDA kept :
        [k \in 1..Len(kept) |->
            [mod_name |-> kept[k].mod_name, content |-> kept[k].file.content]])

\* those of the mods, in priority order, whose top-level block of the name of
\* base_block differs from it in normalized inner content: [mod_name, block]
ChangingBlocksOf(base_block, mods) ==
    Let([k \in 1..Len(mods) |->
            [mod_name |-> mods[k].mod_name,
             blocks |-> DictGet(parse_top_level_blocks(NormalizeNewlines(mods[k].content)),
                                base_block.name)]], LAMBDA found :
    Let(SelectSeq(found, LAMBDA f :
            /\ f.blocks # <<>>
            /\ normalize_content(f.blocks[1].inner_text)
                  # normalize_content(base_block.inner_text)), LAMBDA kept :
        [k \in 1..Len(kept) |-> [mod_name |-> kept[k].mod_name, block |-> kept[k].blocks[1]]]))

\* the iterations of the loop that wrote a merged file
MergedIterations == { k \in 1..Len(processed) : processed[k].counted = "merged_files" }

\* C11 - the file path reaches the merge: the text generate_patch writes for a
\* merged file is the one merge_contents gives for the file's relative path, and
\* when that path has a segment of an atomic context every changed top-level
\* block of base stands in it as the last changing mod's copy, whatever its name
FilePathReachesMerge ==
    \A k \in MergedIterations :
        Let(processed[k].file, LAMBDA file :
        Let(HandedContents(processed[k]), LAMBDA mods :
        Let(parse_top_level_blocks(NormalizeNewlines(file.base.content)), LAMBDA blocks :
            /\ WrittenAt(file.relative_path)
                  = { merge_contents(file.base.content, mods, file.relative_path, <<>>).content }
            /\ get_file_context(file.relative_path) = "atomic" =>
                  \A w \in WrittenAt(file.relative_path) :
                      \A b \in 1..Len(blocks) :
                          Let(ChangingBlocksOf(blocks[b], mods), LAMBDA changing :
                              changing # <<>> =>
                                  /\ DictGet(parse_top_level_blocks(w), blocks[b].name) # <<>>
                                  /\ DictGet(parse_top_level_blocks(w), blocks[b].name)[1].full_text
                                        = changing[Len(changing)].block.full_text))))

\* C11, its case: generate_patch has merged and written a file of an atomic
\* context in which a mod changes a block whose name is that of an on_action
FilePathReachesMergeCase ==
    \E k \in MergedIterations :
        Let(processed[k].file, LAMBDA file :
            /\ get_file_context(file.relative_path) = "atomic"
            /\ WrittenAt(file.relative_path) # {}
            /\ \E b \in 1..Len(parse_top_level_blocks(file.base.content)) :
                  Let(parse_top_level_blocks(file.base.content)[b], LAMBDA block :
                      /\ is_on_action_container(block.name)
                      /\ ChangingBlocksOf(block, HandedContents(processed[k])) # <<>>))

\* ---------------------------------------------------------------------------
\* Properties of the rule book (specification SpecRules)
\* ---------------------------------------------------------------------------

\* the segments of a path, \ and / both separating
PathSegments(file_path) ==
    SelectSeq(Split(ReplaceAllChar(file_path, "\\", "/"), "/"), LAMBDA part : part # <<>>)

\* the context of a file by its whole path segments: atomic when a segment is the
\* name of an atomic context, else recursive when one is the name of a recursive
\* context, else unknown
SegmentContext(file_path) ==
    Let(PathSegments(file_path), LAMBDA segments :
        IF \E k \in 1..Len(segments) : segments[k] \in ATOMIC_FILE_CONTEXTS THEN "atomic"
        ELSE IF \E k \in 1..Len(segments) : segments[k] \in RECURSIVE_FILE_CONTEXTS
            THEN "recursive"
        ELSE "unknown")

\* the first match of the order of the top-level strategies
TopLevelByOrder(block_name, file_path) ==
    IF is_event_block(block_name) \/ is_date_block(block_name) THEN "ATOMIC_ACCUMULATE"
    ELSE IF SegmentContext(file_path) = "atomic" THEN "ATOMIC_ACCUMULATE"
    ELSE IF SegmentContext(file_path) = "recursive" THEN "MERGEABLE_CONTAINER"
    ELSE IF \/ /\ StartsWith(block_name, <<"o","n","_">>)
               /\ block_name # <<"o","n","_","a","c","t","i","o","n","s">>
            \/ Contains(block_name, <<"_","p","u","l","s","e">>)
            \/ is_scripted_effect_container(block_name)
            \/ is_gui_background_container(block_name)
        THEN "MERGEABLE_CONTAINER"
    ELSE "ATOMIC_ACCUMULATE"

\* C12 - the top-level strategy: get_top_level_strategy(block_name, file_path)
\* returns the first match of the order event or date name, atomic context,
\* recursive context, container name, default, the context being decided by the
\* whole segments of the path
TopLevelStrategyOrder ==
    called.function = "get_top_level_strategy" =>
        returned = TopLevelByOrder(called.block_name, called.other)

\* C12, its case: the strategy was asked for a name that is no event and no date
\* and a path one of whose segments begins with the name of a context and is longer
TopLevelStrategyOrderCase ==
    /\ called.function = "get_top_level_strategy"
    /\ ~is_event_block(called.block_name) /\ ~is_date_block(called.block_name)
    /\ SegmentContext(called.other) = "unknown"
    /\ \E k \in 1..Len(PathSegments(called.other)) :
          \E context \in ATOMIC_FILE_CONTEXTS \cup RECURSIVE_FILE_CONTEXTS :
              /\ StartsWith(PathSegments(called.other)[k], context)
              /\ PathSegments(called.other)[k] # context

\* the name is one of every_*, random_*, ordered_*, any_* as ITERATOR_PATTERNS
\* writes them: the prefix and then lower-case letters and underscores
IteratorName(block_name) ==
    \E prefix \in ITERATOR_PATTERNS : MatchesPrefixLower(block_name, prefix)

\* the name is that of an on-action, of a scripted effect or of a GUI container
ContainerName(block_name) ==
    \/ is_on_action_container(block_name)
    \/ is_scripted_effect_container(block_name)
    \/ is_gui_background_container(block_name)

\* the first match of the order of the strategies of a child
StrategyByOrder(block_name) ==
    IF is_event_block(block_name) \/ is_date_block(block_name)
          \/ (block_name # <<>> /\ \A i \in 1..Len(block_name) : block_name[i] \in DigitChars)
        THEN "REPLACE_WHOLE"
    ELSE IF IteratorName(block_name) /\ block_name \notin SAFE_LIST_BLOCKS THEN "REPLACE_WHOLE"
    ELSE IF block_name \in SAFE_LIST_BLOCKS THEN "ACCUMULATE_LIST"
    ELSE IF block_name \in NO_MERGE_BLOCKS THEN "REPLACE_WHOLE"
    ELSE IF ContainerName(block_name) THEN "RECURSIVE"
    ELSE "REPLACE_WHOLE"

SafeToAddChild ==
    called.function = "is_safe_to_add_child" =>
        /\ ContainerName(called.other) => returned = "True"
        /\ ~ContainerName(called.other) =>
              ( returned = "True"
                  <=> get_merge_strategy(called.block_name, called.other)
                         \in {"ACCUMULATE_LIST", "RECURSIVE"} )
        /\ ( ~ContainerName(called.other)
               /\ get_merge_strategy(called.block_name, called.other) = "REPLACE_WHOLE" ) =>
              returned = "False"

\* C14, its case: the question was asked for a parent that is no container and a
\* child whose name falls to the default strategy, and the child was refused
SafeToAddChildCase ==
    /\ called.function = "is_safe_to_add_child"
    /\ ~ContainerName(called.other)
    /\ ~is_event_block(called.block_name) /\ ~is_date_block(called.block_name)
    /\ ~is_province_id(called.block_name) /\ ~IteratorName(called.block_name)
    /\ called.block_name \notin SAFE_LIST_BLOCKS \cup NO_MERGE_BLOCKS
    /\ ~ContainerName(called.block_name)
    /\ returned = "False"

\* ---------------------------------------------------------------------------
\* Algebraic properties of merge_contents (specification Spec)
\* ---------------------------------------------------------------------------

\* the call has returned, and every mod's text was the base's
IdentityMerge ==
    /\ MergeReturned
    /\ mod_contents # <<>>
    /\ \A k \in 1..Len(mod_contents) : mod_contents[k].content = base_content

CommentedCopy(content, name) ==
    \E line \in { Split(content, "\n")[i] : i \in 1..Len(Split(content, "\n")) } :
        Strip(line) = <<"#">> \o name \o <<" ", "=", " ", "{">>

\* the text opens the block at top level, `name = {` at the start of a line
LiveOpener(content, name) ==
    \E line \in { Split(content, "\n")[i] : i \in 1..Len(Split(content, "\n")) } :
        StartsWith(line, name \o <<" ", "=", " ", "{">>)

\* the blocks the mods ship live that the base holds only as a comment:
\* [mod_name, block]
Uncommented ==
    Flatten([k \in 1..Len(mod_contents) |->
        Let(parse_top_level_blocks(mod_contents[k].content), LAMBDA blocks :
            [b \in 1..Len(SelectSeq(blocks, LAMBDA blk :
                            /\ LiveOpener(mod_contents[k].content, blk.name)
                            /\ CommentedCopy(base_content, blk.name)
                            /\ ~LiveOpener(base_content, blk.name))) |->
                [mod_name |-> mod_contents[k].mod_name,
                 block |-> SelectSeq(blocks, LAMBDA blk :
                            /\ LiveOpener(mod_contents[k].content, blk.name)
                            /\ CommentedCopy(base_content, blk.name)
                            /\ ~LiveOpener(base_content, blk.name))[b]]])])

\* C17 - uncomment-to-enable: when the base holds a block only in commented-out
\* form and a mod ships the block uncommented, the merge succeeds, the merged
\* text holds the block of a mod that ships it at top level, holds the
\* commented copy no longer, and its braces balance
UncommentToEnable ==
    MergeReturned =>
        \A u \in 1..Len(Uncommented) :
            /\ result.success
            /\ \E v \in 1..Len(Uncommented) :
                  /\ Uncommented[v].block.name = Uncommented[u].block.name
                  /\ MergedBlock(Uncommented[u].block.name) # <<>>
                  /\ MergedBlock(Uncommented[u].block.name)[1].full_text
                        = Uncommented[v].block.full_text
            /\ ~CommentedCopy(result.content, Uncommented[u].block.name)
            /\ Balanced(result.content)

\* C17, its case: a merge of a base that holds a block only as a comment with
\* one mod that ships it live has returned a text with the mod's block at top
\* level and the commented copy still in it
UncommentToEnableCase ==
    /\ MergeReturned
    /\ Len(mod_contents) = 1
    /\ Len(Uncommented) = 1
    /\ result.success
    /\ MergedBlock(Uncommented[1].block.name) # <<>>
    /\ MergedBlock(Uncommented[1].block.name)[1].full_text = Uncommented[1].block.full_text
    /\ CommentedCopy(result.content, Uncommented[1].block.name)
    /\ Balanced(result.content)

\* the base blocks some mod changes and merge_contents merges as GUI containers
GuiMergedContainers ==
    { b \in 1..Len(base_blocks) :
        /\ get_top_level_strategy(base_blocks[b].name, filename) = "MERGEABLE_CONTAINER"
        /\ get_merge_strategy(base_blocks[b].name, <<>>) # "REPLACE_WHOLE"
        /\ is_gui_background_container(base_blocks[b].name)
        /\ ChangingBlocks(base_blocks[b]) # <<>> }

\* the child blocks of a block: the name and the normalized content of each
ChildContents(block) ==
    Let(ChildSlots(block), LAMBDA slots :
        [k \in 1..Len(slots) |->
            [name |-> slots[k].name,
             content |-> normalize_block_content(slots[k].child.inner_text)]])

\* C18 - GUI-container merge by content: the merged GUI container holds every
\* child block of the base (a child of the same name and normalized content),
\* holds exactly one child of each normalized content that occurs among the
\* children of the changing mods and not among the base's, and holds no child of
\* any other content
GuiMergeByContent ==
    (MergeReturned /\ result.success) =>
        \A b \in GuiMergedContainers :
            Let(ChildContents(base_blocks[b]), LAMBDA base_children :
            Let(Flatten([k \in 1..Len(ChangingBlocks(base_blocks[b])) |->
                    ChildContents(ChangingBlocks(base_blocks[b])[k].block)]),
                LAMBDA mod_children :
            Let(IF MergedBlock(base_blocks[b].name) = <<>> THEN <<>>
                ELSE ChildContents(MergedBlock(base_blocks[b].name)[1]), LAMBDA merged :
                /\ \A c \in 1..Len(base_children) : InSeq(base_children[c], merged)
                /\ \A c \in 1..Len(mod_children) :
                      (\A j \in 1..Len(base_children) :
                            base_children[j].content # mod_children[c].content)
                      => Cardinality({k \in 1..Len(merged) :
                                         merged[k].content = mod_children[c].content}) = 1
                /\ \A k \in 1..Len(merged) :
                      \/ \E j \in 1..Len(base_children) :
                            base_children[j].content = merged[k].content
                      \/ \E c \in 1..Len(mod_children) :
                            mod_children[c].content = merged[k].content)))

\* C18, its case: two mods have added to a GUI container a child of the same
\* normalized content that the base has not, and a merged text was returned
GuiMergeByContentCase ==
    /\ MergeReturned
    /\ result.success
    /\ \E b \in GuiMergedContainers :
          Let(ChangingBlocks(base_blocks[b]), LAMBDA changing :
              /\ Len(changing) >= 2
              /\ \E c1 \in 1..Len(ChildContents(changing[1].block)),
                    c2 \in 1..Len(ChildContents(changing[2].block)) :
                    /\ ChildContents(changing[1].block)[c1].content
                          = ChildContents(changing[2].block)[c2].content
                    /\ \A j \in 1..Len(ChildContents(base_blocks[b])) :
                          ChildContents(base_blocks[b])[j].content
                             # ChildContents(changing[1].block)[c1].content)

\* ---------------------------------------------------------------------------
\* Properties of a merger that is used again (specification SpecReuse)
\* ---------------------------------------------------------------------------

\* the second call has returned, and it merged the base of the first call, under
\* the same file name, with the text the first call returned
FedBack ==
    /\ MergeReturned
    /\ earlier # <<>>
    /\ earlier[1].result.success
    /\ base_content = earlier[1].base_content
    /\ filename = earlier[1].filename
    /\ mod_contents[1].content = earlier[1].result.content

\* the first call recorded a change of this type
FirstRecorded(change_type) ==
    \E c \in 1..Len(earlier[1].result.changes) :
        earlier[1].result.changes[c].change_type = change_type

\* C16 - idempotence: when the merge of a base with one mod has succeeded with
\* the text r, merging the base with r as the only mod succeeds with r again
MergeIdempotent ==
    FedBack => result.success /\ result.content = earlier[1].result.content

\* C16, its case: a merge with one mod has added an item to a list, and merging
\* the base with its result does not give the result back
MergeIdempotentCase ==
    /\ FedBack
    /\ FirstRecorded("added_list_item")
    /\ result.success
    /\ result.content # earlier[1].result.content

\* the changes the caller of an earlier call finds in the result it holds: the
\* list self.changes as it is now when the result shares it
HeldChanges(call) == IF call.shares_changes THEN changes ELSE call.result.changes

\* the second call has returned, and its arguments were those of the first
SameMergeAgain ==
    /\ MergeReturned
    /\ earlier # <<>>
    /\ base_content = earlier[1].base_content
    /\ mod_contents = earlier[1].mod_contents
    /\ filename = earlier[1].filename

\* C19 - file merges are isolated: a merge on a merger that has merged before
\* returns, for the arguments of the earlier merge, the result the earlier merge
\* returned (success flag, content and recorded changes), and the result the
\* caller of the earlier merge holds stays as it was returned
MergesIsolated ==
    /\ SameMergeAgain =>
          /\ result.success = earlier[1].result.success
          /\ result.content = earlier[1].result.content
          /\ result.changes = earlier[1].result.changes
    /\ earlier # <<>> => HeldChanges(earlier[1]) = earlier[1].result.changes

\* C19, its case: a merge that recorded a change was called a second time with
\* the same arguments on the same merger and has returned the same content
MergesIsolatedCase ==
    /\ SameMergeAgain
    /\ earlier[1].result.success
    /\ earlier[1].result.changes # <<>>
    /\ result.success
    /\ result.content = earlier[1].result.content

\* ---------------------------------------------------------------------------
\* Properties of a call of the validator (specification SpecRules)
\* ---------------------------------------------------------------------------

\* the names of the blocks opened at top level, in the order of the text: a line
\* that opens a block (name = {, read on the stripped line) while no brace opened
\* on the lines before it is still open; braces in comments do not count
TopLevelOpened(content) ==
    Let(Split(content, "\n"), LAMBDA lines :
    Let(<<>> \o [i \in 1..Len(lines) |->
            [depth |-> Let(Join([j \in 1..(i - 1) |-> CutComment(lines[j])], <<>>),
                           LAMBDA before : Count(before, "{") - Count(before, "}")),
             open |-> MatchBlockOpen(Strip(lines[i]))]], LAMBDA at :
    Let(SelectSeq(at, LAMBDA l : l.depth = 0 /\ l.open.ok), LAMBDA opened :
        <<>> \o [k \in 1..Len(opened) |-> opened[k].open.name])))

\* some event name is opened more than once at top level
EventOpenedTwice(content) ==
    Let(TopLevelOpened(content), LAMBDA opened :
        \E i, j \in 1..Len(opened) :
            i < j /\ opened[i] = opened[j] /\ is_event_block(opened[i]))

\* the issues of a severity
IssuesOf(severity) ==
    SelectSeq(returned.issues, LAMBDA issue : issue.severity = severity)

\* C20: validate returns is_valid = false with an issue of severity error for every
\* content in which an event name is opened more than once at top level; it reports
\* no duplicated event when every event name is opened at most once at top level;
\* and is_valid is false only when there is an issue of severity error, so that
\* warnings alone never make it false
DuplicateEventCheck ==
    called.function = "validate" =>
        /\ EventOpenedTwice(called.content) =>
              ~returned.is_valid /\ IssuesOf("error") # <<>>
        /\ ~EventOpenedTwice(called.content) =>
              \A k \in 1..Len(returned.issues) :
                  returned.issues[k].message # DuplicateEventText
        /\ returned.is_valid <=> IssuesOf("error") = <<>>

\* C20, its case: a content with an event opened twice at top level was validated,
\* and so was one with events opened once each that got a warning
DuplicateEventCheckCase ==
    /\ called.function = "validate"
    /\ \/ EventOpenedTwice(called.content)
       \/ returned.is_valid /\ IssuesOf("warning") # <<>>

\* ---------------------------------------------------------------------------
\* The counters of generate_patch (specification SpecPatch)
\* ---------------------------------------------------------------------------

\* the four counters of the files
FileCounters == {"merged_files", "copied_files", "skipped_files", "failed_files"}

\* merged_files + copied_files + skipped_files + failed_files
CountedFiles ==
    stats.merged_files + stats.copied_files + stats.skipped_files + stats.failed_files

\* C28: every processed file has incremented exactly one of the four counters: each
\* counter is the number of processed files counted under it, so their sum is the
\* number of files processed so far; at return total_files is that sum, and all
\* counters are zero when the run stopped at the compatibility check
StatisticsPartition ==
    /\ \A counter \in FileCounters :
          stats[counter] = Cardinality({k \in 1..Len(processed) :
                                           processed[k].counted = counter})
    /\ CountedFiles = Len(processed)
    /\ gpc = "returned" => stats.total_files = CountedFiles
    /\ (gpc = "returned" /\ ~metafiles) => stats.total_files = 0 /\ CountedFiles = 0

\* C28, its case: a run has returned after two files that were counted under
\* different counters
StatisticsPartitionCase ==
    /\ gpc = "returned" /\ metafiles
    /\ Len(processed) = 2
    /\ processed[1].counted # processed[2].counted

\* ---------------------------------------------------------------------------
\* The substitutions of merge_contents (specification Spec)
\* ---------------------------------------------------------------------------

\* the text merge_contents puts in the place of a base block for an entry of
\* all_changes: the last mod's block for an atomic block, the deep merge otherwise
ReplacementOf(entry, base_block) ==
    IF get_top_level_strategy(entry.name, filename) = "ATOMIC_ACCUMULATE"
        THEN entry.changes[Len(entry.changes)].block.full_text
        ELSE deep_merge_block(base_block,
                 [k \in 1..Len(entry.changes) |->
                     [mod_name |-> entry.changes[k].mod_name,
                      block |-> entry.changes[k].block]]).text

\* C25: after a merge the top-level blocks of the merged text are, in the order of
\* base, base's blocks: a block no mod changed with the text it has in base, a
\* changed block with its replacement; no substitution touches another block
SplicingInPlace ==
    (MergeReturned /\ result.success) =>
        Let(parse_top_level_blocks(result.content), LAMBDA merged :
            /\ Len(merged) >= Len(base_blocks)
            /\ \A b \in 1..Len(base_blocks) :
                  Let(DictGet(all_changes, base_blocks[b].name), LAMBDA entry :
                      /\ merged[b].name = base_blocks[b].name
                      /\ merged[b].full_text =
                            IF entry = <<>> THEN base_blocks[b].full_text
                            ELSE ReplacementOf(entry[1], base_blocks[b])))

\* C25, its case: a merge has replaced a block of base whose text stands twice in
\* the file, or also in the replacement of an earlier block
SplicingInPlaceCase ==
    /\ MergeReturned /\ result.success
    /\ \E b \in 2..Len(base_blocks) :
          /\ DictGet(all_changes, base_blocks[b].name) # <<>>
          /\ \/ Cardinality({p \in 1..Len(base_content) :
                     OccursAt(base_content, base_blocks[b].full_text, p)}) >= 2
             \/ \E a \in 1..(b - 1) :
                   /\ DictGet(all_changes, base_blocks[a].name) # <<>>
                   /\ Contains(ReplacementOf(DictGet(all_changes, base_blocks[a].name)[1],
                                             base_blocks[a]),
                               base_blocks[b].full_text)

\* ---------------------------------------------------------------------------
\* Children of the same name (specification Spec)
\* ---------------------------------------------------------------------------

\* the ReplaceWhole children of a base block whose name the block holds more than
\* once, as slots [name, idx, child]
RepeatedSlots(base_block) ==
    SelectSeq(ReplaceWholeSlots(base_block),
        LAMBDA s : Len(get_all_children(base_block, s.name)) >= 2)

\* C26: in a deep-merged container that has several children of one name, the
\* occurrence at index i of the merged block is the child at index i of the last
\* mod that changed that child, and base's child at index i when no mod changed
\* it, also when base's occurrences have the same text
PositionalMatching ==
    (MergeReturned /\ result.success) =>
        \A b \in DeepMergedContainers :
            Let(RepeatedSlots(base_blocks[b]), LAMBDA slots :
                \A s \in 1..Len(slots) :
                    Let(MergedChild(base_blocks[b].name, slots[s].name, slots[s].idx),
                        LAMBDA merged :
                        /\ merged # <<>>
                        /\ merged[1].full_text
                              = ReplacedChildText(ChangingBlocks(base_blocks[b]), slots[s])))

\* C26, its case: a merge has returned for a container with repeated children, of
\* which a mod changed one that is not the first
PositionalMatchingCase ==
    /\ MergeReturned /\ result.success
    /\ \E b \in DeepMergedContainers :
          Let(RepeatedSlots(base_blocks[b]), LAMBDA slots :
              \E s \in 1..Len(slots) :
                  /\ slots[s].idx >= 1
                  /\ ReplacedChildText(ChangingBlocks(base_blocks[b]), slots[s])
                        # slots[s].child.full_text)

\* ---------------------------------------------------------------------------
\* New children of a container (specification Spec)
\* ---------------------------------------------------------------------------

\* the children the changing mods bring to a base block that the block does not
\* have and that may be added under it, in the order of the mods:
\* [mod_name, name, idx, child]
SafeNewChildren(base_block) ==
    SelectSeq(ModChildSlots(ChangingBlocks(base_block)), LAMBDA s :
        /\ s.idx >= Len(get_all_children(base_block, s.name))
        /\ is_safe_to_add_child(s.name, base_block.name))

\* the first of these children at the name and index of the u-th
FirstSupplied(new, u) ==
    new[Min({v \in 1..Len(new) : new[v].name = new[u].name /\ new[v].idx = new[u].idx})]

\* C29: for every new child that may be added, the merge succeeds and the merged
\* container holds at that name and index the copy of the first mod that supplies
\* it, one added_child_block change is recorded for it, under that mod's name, and
\* the container has as many children of the name as base has plus the new indices,
\* so that no copy of a later mod is inserted
NewChildrenAddedOnce ==
    MergeReturned =>
        \A b \in DeepMergedContainers :
            Let(SafeNewChildren(base_blocks[b]), LAMBDA new :
                \A u \in 1..Len(new) :
                    /\ result.success
                    /\ Let(MergedChild(base_blocks[b].name, new[u].name, new[u].idx),
                           LAMBDA merged :
                           /\ merged # <<>>
                           /\ Strip(merged[1].full_text)
                                 = Strip(FirstSupplied(new, u).child.full_text))
                    /\ Len(get_all_children(MergedBlock(base_blocks[b].name)[1], new[u].name))
                          = Len(get_all_children(base_blocks[b], new[u].name))
                            + Cardinality({new[v].idx : v \in
                                  {w \in 1..Len(new) : new[w].name = new[u].name}})
                    /\ Let(SelectSeq(changes, LAMBDA c :
                               /\ c.change_type = "added_child_block"
                               /\ c.path = ChildPath(base_blocks[b].name,
                                               new[u].name, new[u].idx)), LAMBDA recorded :
                           /\ Len(recorded) = 1
                           /\ recorded[1].mod_name = FirstSupplied(new, u).mod_name))

\* C29, its case: two mods supplied a child at the same name and index, with
\* different texts, and the merge has returned
NewChildrenAddedOnceCase ==
    /\ MergeReturned
    /\ \E b \in DeepMergedContainers :
          Let(SafeNewChildren(base_blocks[b]), LAMBDA new :
              \E u, v \in 1..Len(new) :
                  /\ u < v
                  /\ new[u].name = new[v].name /\ new[u].idx = new[v].idx
                  /\ new[u].mod_name # new[v].mod_name
                  /\ new[u].child.full_text # new[v].child.full_text)
\* ---------------------------------------------------------------------------
\* Properties of PdxParser.parse (specification SpecPdx)
\* ---------------------------------------------------------------------------

\* the node and every node below it
RECURSIVE NodesOf(_)
NodesOf(node) ==
    {node} \cup UNION { NodesOf(node.children[k]) : k \in 1..Len(node.children) }

\* the frame the stack ends with: the last child of the last child ... of the node
RECURSIVE TopFrame(_, _)
TopFrame(node, frames) ==
    IF frames = 0 THEN node ELSE TopFrame(node.children[Len(node.children)], frames - 1)

\* every frame above the root is there: a block, the last child of the frame below
RECURSIVE FramesAreBlocks(_, _)
FramesAreBlocks(node, frames) ==
    \/ frames = 0
    \/ /\ node.children # <<>>
       /\ node.children[Len(node.children)].node_type = "block"
       /\ FramesAreBlocks(node.children[Len(node.children)], frames - 1)

\* what is left of a line behind the closing braces it starts with
RemainingOf(line) ==
    RemainingAfter(Strip(line), LeadingClose(CutComment(Strip(line))))

\* a line that is not blank and is none of the forms parse knows: nothing but
\* closing braces, a comment, a block, a property, a list item
Unrecognized(line) ==
    Let(RemainingOf(line), LAMBDA remaining :
        /\ remaining # <<>>
        /\ remaining[1] # "#"
        /\ ~MatchPdxBlock(remaining).ok
        /\ ~MatchPdxProperty(remaining).ok
        /\ ~MatchPdxListItem(remaining).ok)

NetDepth(text_lines, n) ==
    LET RECURSIVE go(_)
        go(k) == IF k = 0 THEN 0 ELSE go(k - 1) + BraceDelta(text_lines[k])
    IN  go(n)

\* a text with as many { as }, comments left out
PdxBalanced(text_lines) == NetDepth(text_lines, Len(text_lines)) = 0

\* a line with a } behind other content, comments left out
ClosesAfterContent(line) ==
    Let(Strip(CutComment(line)), LAMBDA active :
        /\ HasChar(active, "}")
        /\ active[1] # "}"
        /\ ~MatchPdxBlock(active).ok)

\* C27: after every line of a text with balanced braces the number of frames
\* above the root is the number of { minus the number of } read so far outside
\* comments, wherever on its line a closing brace stands
BlockClosing ==
    PdxBalanced(pdx_lines) => pdx_stack = NetDepth(pdx_lines, pdx_line_num)

\* parse has read, in a text with balanced braces, a line that closes a block
\* behind other content, and holds a frame more than braces are open
BlockClosingCase ==
    /\ ppc = "lines"
    /\ PdxBalanced(pdx_lines)
    /\ pdx_line_num > 0
    /\ ClosesAfterContent(pdx_lines[pdx_line_num])
    /\ pdx_stack = NetDepth(pdx_lines, pdx_line_num) + 1
\* ---------------------------------------------------------------------------
\* The braces of a serialized tree (specification SpecPdx)
\* ---------------------------------------------------------------------------

\* the occurrences of c in a line that stand neither in "..." nor behind a #
\* outside "..."
ActiveCount(line, c) ==
    LET Toggles(i) == line[i] = "\"" /\ (i = 1 \/ line[i - 1] # "\\")
        in_quotes(i) == Cardinality({q \in 1..(i - 1) : Toggles(q)}) % 2 = 1
    IN  Let(find_comment_pos(line), LAMBDA hash_pos :
            Cardinality({i \in 1..(IF hash_pos > 0 THEN hash_pos - 1 ELSE Len(line)) :
                            line[i] = c /\ ~in_quotes(i)}))

\* the { minus the } of a text, counted outside comments and quoted strings
ActiveBraces(text) ==
    Let(Split(text, "\n"), LAMBDA text_lines :
        LET RECURSIVE go(_)
            go(k) == IF k = 0 THEN 0
                     ELSE go(k - 1) + ActiveCount(text_lines[k], "{")
                                    - ActiveCount(text_lines[k], "}")
        IN  go(Len(text_lines)))

\* C23: whatever the text, the serialized tree of it has as many { as }, counted
\* outside comments and outside quoted strings
SerializedBraceBalance ==
    ppc = "serialized" => ActiveBraces(serialized) = 0

\* the tree of a text with balanced braces has been serialized into a text whose
\* braces are not balanced
SerializedBraceBalanceCase ==
    /\ ppc = "serialized"
    /\ ActiveBraces(pdx_content) = 0
    /\ ActiveBraces(serialized) # 0
\* ---------------------------------------------------------------------------
\* The round trip through parse and serialize (specification SpecPdx)
\* ---------------------------------------------------------------------------

\* a text as its lines without their trailing whitespace, and without the empty
\* last line a single final newline makes
UpToTrailing(text) ==
    Let(Split(text, "\n"), LAMBDA text_lines :
    Let([k \in 1..Len(text_lines) |-> RStrip(text_lines[k])], LAMBDA stripped :
        IF Len(stripped) > 1 /\ stripped[Len(stripped)] = <<>>
            THEN SubSeq(stripped, 1, Len(stripped) - 1)
            ELSE stripped))

\* C22: the serialized tree of a text with balanced braces is the text, up to
\* trailing whitespace on each line and a single final newline
LosslessRoundTrip ==
    ppc = "serialized" /\ PdxBalanced(pdx_lines)
        => UpToTrailing(serialized) = UpToTrailing(pdx_content)

\* the tree of a text with balanced braces has been serialized, and a block
\* written on several lines has come back on one line
LosslessRoundTripCase ==
    /\ ppc = "serialized"
    /\ PdxBalanced(pdx_lines)
    /\ Len(UpToTrailing(serialized)) < Len(UpToTrailing(pdx_content))
\* ---------------------------------------------------------------------------
\* Termination of ParadoxParser.parse (specification SpecParadox)
\* ---------------------------------------------------------------------------

\* every iteration of a loop of parse or read_block moves self.pos forward or is
\* the last of its loop (the loop is left: it is off the stack, or parse is over)
PosAdvances ==
    [][ rpc = "running" /\ pp_pos < Len(pp_content)
            => \/ pp_pos' > pp_pos
               \/ Len(pp_stack') < Len(pp_stack)
               \/ rpc' # "running" ]_vars

\* no loop goes through more iterations than the text is long plus the constant
\* of its loop, and one more to notice it
IterationsCapped ==
    \A k \in 1..Len(pp_stack) :
        /\ pp_stack[k].iterations <= pp_stack[k].max_iterations + 1
        /\ pp_stack[k].max_iterations =
              Len(pp_content) + (IF k = 1 THEN ParseIterationsSlack ELSE BlockIterationsSlack)

\* what a running call has left to do: the characters behind self.pos, counted
\* twice, and the loops to return from
Remaining == 2 * (Len(pp_content) - pp_pos) + Len(pp_stack)

\* a call of parse comes to its end: every step of it is its last or leaves it
\* less to do, and what is left to do is never less than nothing
ParseEnds ==
    [][ rpc = "running"
            => \/ rpc' # "running"
               \/ Remaining' < Remaining /\ Remaining' >= 0 ]_vars

\* C24: every iteration of the loops of parse and read_block moves pos forward
\* or leaves its loop, the iterations of a loop are capped by the length of the
\* text plus a constant, and parse comes to an end on every text
ParserTermination == PosAdvances /\ []IterationsCapped /\ ParseEnds

\* parse has returned from a text that ends inside a block, inside a quoted
\* string or with a stray operator
ParserTerminationCase ==
    /\ rpc = "returned"
    /\ pp_content \in {PP_unterminated_block, PP_unterminated_quote, PP_stray}
\* ---------------------------------------------------------------------------
\* The top-level entries of ParadoxParser.parse (specification SpecParadox)
\* ---------------------------------------------------------------------------

\* a value of the tree is the value an entry is written with: the same token, or
\* the block of the same entries
RecordedAs(value, written) ==
    /\ value.kind = written.kind
    /\ value.text = written.text
    /\ value.entries = written.entries

\* the tree holds the entries, each under its key with its value, and nothing else
HoldsEntries(tree, entries) ==
    /\ Len(tree.entries) = Len(entries)
    /\ \A k \in 1..Len(entries) :
          /\ tree.entries[k].key = entries[k].key
          /\ RecordedAs(tree.entries[k].value, entries[k].value)

\* C30: parse records every top-level entry of the text under its key with its
\* value, wherever the first entry starts: at offset 0, behind whitespace, behind a
\* comment line; the keys of the tree are the keys of the text, whole, and no
\* value is among them
TopLevelEntriesRecorded ==
    \A start \in Starts, entry \in EntryTexts :
        rpc = "returned" /\ pp_content = start \o entry.text
            => HoldsEntries(pp_tree, entry.entries)

\* parse has returned from the text `key = value`, the entry at offset 0, with a
\* tree whose only key is the value
TopLevelEntriesRecordedCase ==
    /\ rpc = "returned"
    /\ pp_content = Start_offset0 \o Entry_token.text
    /\ pp_tree.entries = << [key |-> Entry_token.entries[1].value.text, value |-> TrueValue] >>

====
